---- MODULE Spec2Model ----
(***************************************************************************)
(* A model of the Pathfinding Visualizer core: the Grid and Graph          *)
(* traversable structures (src/classes), the five step-wise search         *)
(* engines and the randomized Prim maze generator (src/algorithms.py).     *)
(***************************************************************************)
EXTENDS Integers, Sequences, FiniteSets, TLC

VARIABLES
    height, width,   \* Grid.height, Grid.width
    geom,            \* square_size / spacing / offset given to Grid.__init__
    grid,            \* Grid.grid[row][col].state, a function on Cells
    cost,            \* Grid.grid[row][col].cost
    nodes,           \* Graph.nodes: the list of GraphNode objects, by identity
    npos,            \* GraphNode.x, GraphNode.y of every node object created
    nstate,          \* GraphNode.state of every node object created
    edges,           \* Graph.edges: the list of Edge objects (node1, node2, cost, state)
    structure,       \* Algorithm.structure: "grid", "graph", or "none" before an engine exists
    alg,             \* the class of the engine: BFS, DFS, Dijkstra, AStar, Greedy
    frontier,        \* BFSAlgorithm.queue, DFSAlgorithm.stack or the heap of the others
    visited,         \* Algorithm.visited
    parents,         \* Algorithm.parents
    costs,           \* DijkstraAlgorithm.costs / AStarAlgorithm.costs
    counter,         \* the next value of self.counter (itertools.count)
    found,           \* Algorithm.found
    path,            \* Algorithm.path
    egoal,           \* AStarAlgorithm.goal / GreedyBestFirstAlgorithm.goal
    edits,           \* how many Grid.change_state calls a budgeted run has made
    last             \* the last call: its name, arguments, result and error

gridVars == <<height, width, geom, grid, cost>>
graphVars == <<nodes, npos, nstate, edges>>
engineVars == <<structure, alg, frontier, visited, parents, costs, counter, found, path, egoal>>
vars == <<height, width, geom, grid, cost, nodes, npos, nstate, edges,
          structure, alg, frontier, visited, parents, costs, counter, found, path, egoal,
          edits, last>>

(***************************************************************************)
(* Bounds of the model.                                                    *)
(***************************************************************************)
MaxCells == 3      \* grids of every shape with at most this many cells
MaxErrCells == 2   \* the same, where failing calls are made too
MaxDim == 3        \* neighbour enumeration: grids up to MaxDim x MaxDim
MaxNodes == 3      \* GraphNode objects created in one run
MaxEdges == 2      \* edges a graph holds at one time
MaxPath == 3       \* entries of Algorithm.path
MaxEdits == 2      \* Grid.change_state calls in a run with an engine

(***************************************************************************)
(* definitions/states.py: the State enum.                                  *)
(***************************************************************************)
State == {"DEACTIVATED", "ACTIVATED", "START", "GOAL", "VISITED", "PATH", "FRONTIER"}

\* A value that is not a member of the State enum (isinstance(x, State) fails).
NotAState == "garbage"

\* Python's None.
None == <<>>

(***************************************************************************)
(* definitions/grid_constants.py and definitions/global_constants.py.      *)
(***************************************************************************)
SQUARE_SIZE == 19
SPACING == 5
SCREEN_HEIGHT == 701

\* Grid.__init__'s defaults: square_size=SQUARE_SIZE, spacing=SPACING, offset=0.
DefaultGeom == [size |-> SQUARE_SIZE, spacing |-> SPACING, offset |-> 0]

\* Grid2DScreen.__init__ / Grid2DWeightedScreen.__init__: the square size and the
\* centering offset computed from the grid's size.
ScreenGeom(size) ==
    LET grid_area_size == SCREEN_HEIGHT - 2 * SPACING
        square_size == (grid_area_size - (size - 1) * SPACING) \div size
        total_grid_height == size * square_size + (size - 1) * SPACING
        draw_grid_offset == (SCREEN_HEIGHT - total_grid_height - SPACING - 2) \div 2
    IN [size |-> square_size, spacing |-> SPACING, offset |-> draw_grid_offset]

(***************************************************************************)
(* classes/grid.py: Square and Grid.                                       *)
(***************************************************************************)
\* The index pairs (row, col) of self.grid[row][col].
CellsOf(h, w) == (0 .. h - 1) \X (0 .. w - 1)
Cells == CellsOf(height, width)

\* Grid.__init__: x (or y) of the square at index i.
SquareXY(gm, i) == gm.offset + gm.spacing + i * (gm.size + gm.spacing)

\* Square.__init__: self.row = y // (size + SPACING), self.col likewise from x.
SquareRowCol(gm, i) == SquareXY(gm, i) \div (gm.size + SPACING)

SquareRow(cell) == SquareRowCol(geom, cell[1])
SquareCol(cell) == SquareRowCol(geom, cell[2])

\* Grid.__init__ with customizable_cost=False: every square has state ACTIVATED
\* (the default of the state parameter) and cost 1.
NewGrid(h, w) == [cell \in CellsOf(h, w) |-> "ACTIVATED"]
NewCost(h, w) == [cell \in CellsOf(h, w) |-> 1]

\* The condition of Grid.get, Grid.change_state and Grid.get_neighbors:
\* 0 <= row < height and 0 <= col < width.
InBoundsInclusive(row, col) == 0 <= row /\ row <= height /\ 0 <= col /\ col <= width
InBounds(row, col) == 0 <= row /\ row < height /\ 0 <= col /\ col < width

\* Row-major position of a cell: the order of "for row in self.grid: for square in row".
ScanIndex(cell) == cell[1] * width + cell[2]

\* The first cell with state s in row-major order, or None.
FirstWith(g, s) ==
    LET hits == {cell \in DOMAIN g : g[cell] = s}
    IN IF hits = {} THEN None
       ELSE CHOOSE cell \in hits : \A other \in hits : ScanIndex(cell) <= ScanIndex(other)

\* Grid.get_start / Grid.get_goal.
GridGetStart(g) == FirstWith(g, "START")
GridGetGoal(g) == FirstWith(g, "GOAL")

\* Grid._clear_existing_start: the current START square, if any, becomes ACTIVATED.
ClearStartSkipped(g) == g
ClearExistingStart(g) ==
    LET current_start == GridGetStart(g)
    IN IF current_start # None THEN [g EXCEPT ![current_start] = "ACTIVATED"] ELSE g

\* Grid._clear_existing_goal.
ClearGoalSkipped(g) == g
ClearExistingGoal(g) ==
    LET current_goal == GridGetGoal(g)
    IN IF current_goal # None THEN [g EXCEPT ![current_goal] = "ACTIVATED"] ELSE g

\* The error Grid.change_state raises, or "none": the state check comes first.
ChangeStateError(row, col, new_state) ==
    IF new_state \notin State THEN "ValueError"
    ELSE IF ~InBounds(row, col) THEN "IndexError"
    ELSE "none"

\* The match statement of Grid.change_state, for a call that passed both checks.
MatchOverwriteAlways(g, row, col, new_state) == [g EXCEPT ![<<row, col>>] = new_state]
ChangeStateMatch(g, row, col, new_state) ==
    CASE new_state = "START" ->
            [ClearExistingStart(g) EXCEPT ![<<row, col>>] = new_state]
      [] new_state = "GOAL" ->
            [ClearExistingGoal(g) EXCEPT ![<<row, col>>] = new_state]
      [] new_state = "ACTIVATED" ->
            IF g[<<row, col>>] # "START" THEN [g EXCEPT ![<<row, col>>] = new_state] ELSE g
      [] OTHER -> [g EXCEPT ![<<row, col>>] = new_state]

\* Grid.change_state(row, col, new_state) as an operation on the grid: both checks
\* precede the match statement, so a call that raises leaves the grid as it was.
ChangeStateClearsBeforeCheck(g, row, col, new_state) ==
    IF ChangeStateError(row, col, new_state) = "none"
    THEN ChangeStateMatch(g, row, col, new_state)
    ELSE IF new_state = "START" THEN ClearExistingStart(g)
    ELSE IF new_state = "GOAL" THEN ClearExistingGoal(g)
    ELSE g
GridAfterChangeState(g, row, col, new_state) ==
    IF ChangeStateError(row, col, new_state) = "none"
    THEN ChangeStateMatch(g, row, col, new_state)
    ELSE g

\* The error Grid.get raises for a (row, col) tuple, or "none".
GetError(row, col) == IF ~InBounds(row, col) THEN "IndexError" ELSE "none"

\* Grid.get_neighbors(square): the in-bounds squares among up, down, left, right,
\* in that order, located through the square's own row and col attributes.
Directions == << <<-1, 0>>, <<1, 0>>, <<0, -1>>, <<0, 1>> >>

RECURSIVE NeighborsLastFirst(_, _)
NeighborsLastFirst(cell, i) ==
    IF i > Len(Directions) THEN <<>>
    ELSE LET n_row == SquareRow(cell) + Directions[i][1]
             n_col == SquareCol(cell) + Directions[i][2]
             rest == NeighborsLastFirst(cell, i + 1)
         IN IF InBounds(n_row, n_col) THEN rest \o << <<n_row, n_col>> >> ELSE rest

RECURSIVE NeighborsFrom(_, _)
NeighborsFrom(cell, i) ==
    IF i > Len(Directions) THEN <<>>
    ELSE LET n_row == SquareRow(cell) + Directions[i][1]
             n_col == SquareCol(cell) + Directions[i][2]
             rest == NeighborsFrom(cell, i + 1)
         IN IF InBounds(n_row, n_col) THEN << <<n_row, n_col>> >> \o rest ELSE rest

GridGetNeighbors(cell) == NeighborsFrom(cell, 1)

\* Grid.get_moving_cost(node, neighbor): the neighbor's cost.
GridGetMovingCost(node, neighbor) == cost[neighbor]

\* manhattan_heuristic(node, goal).
Abs(x) == IF x < 0 THEN -x ELSE x
ManhattanHeuristic(node, goal) ==
    Abs(SquareRow(node) - SquareRow(goal)) + Abs(SquareCol(node) - SquareCol(goal))

(***************************************************************************)
(* classes/graph.py: GraphNode, Edge and Graph.  A node object is the      *)
(* number given to it when it was created: GraphNode defines no __eq__, so *)
(* "in", "==" and list.remove compare identities.                          *)
(***************************************************************************)
\* The node objects created so far, in or out of the graph.
Created == DOMAIN nstate

\* "node in self.nodes".
InNodes(ns, node) == \E i \in DOMAIN ns : ns[i] = node

\* Edge.__init__(node1, node2): cost defaults to 1, state is ACTIVATED.
NewEdge(node1, node2) ==
    [node1 |-> node1, node2 |-> node2, cost |-> 1, state |-> "ACTIVATED"]

\* The test of Graph.get_edge's loop: the edge joins the two nodes, either way round.
JoinsOneWay(edge, node1, node2) == edge.node1 = node1 /\ edge.node2 = node2
Joins(edge, node1, node2) ==
    \/ (edge.node1 = node1 /\ edge.node2 = node2)
    \/ (edge.node1 = node2 /\ edge.node2 = node1)

\* Graph.get_edge(node1, node2): the position in self.edges of the first edge
\* that joins the two nodes, or 0 for None.
GetEdgeIndex(es, node1, node2) ==
    LET hits == {i \in DOMAIN es : Joins(es[i], node1, node2)}
    IN IF hits = {} THEN 0 ELSE CHOOSE i \in hits : \A j \in hits : i <= j

\* The list without its element at position i (list.remove of that object).
RemoveAt(q, i) == [j \in 1 .. Len(q) - 1 |-> IF j < i THEN q[j] ELSE q[j + 1]]

\* Graph.add_node(x, y): a new node object, ACTIVATED, appended to self.nodes.
NewNodeId == Len(nstate) + 1

\* Graph.remove_node(node): self.nodes and self.edges afterwards.
NodesAfterRemoveNode(ns, node) ==
    IF InNodes(ns, node) THEN SelectSeq(ns, LAMBDA n : n # node) ELSE ns
RemoveNodeKeepsIncoming(ns, es, node) ==
    IF InNodes(ns, node) THEN SelectSeq(es, LAMBDA e : e.node1 # node) ELSE es
RemoveNodeDropsAllEdges(ns, es, node) ==
    IF InNodes(ns, node) THEN <<>> ELSE es
EdgesAfterRemoveNode(ns, es, node) ==
    IF InNodes(ns, node)
    THEN SelectSeq(es, LAMBDA e : e.node1 # node /\ e.node2 # node)
    ELSE es

\* Graph.add_edge(node1, node2): self.edges afterwards.
AddEdgeOneWayCheck(ns, es, node1, node2) ==
    IF /\ InNodes(ns, node1) /\ InNodes(ns, node2) /\ node1 # node2
       /\ ~\E i \in DOMAIN es : JoinsOneWay(es[i], node1, node2)
    THEN Append(es, NewEdge(node1, node2))
    ELSE es
EdgesAfterAddEdge(ns, es, node1, node2) ==
    IF /\ InNodes(ns, node1) /\ InNodes(ns, node2) /\ node1 # node2
       /\ GetEdgeIndex(es, node1, node2) = 0
    THEN Append(es, NewEdge(node1, node2))
    ELSE es

\* Graph.remove_edge(node1, node2): the error raised, and self.edges afterwards.
RemoveEdgeError(es, node1, node2) ==
    IF GetEdgeIndex(es, node1, node2) # 0 THEN "none" ELSE "ValueError"
RemoveEdgeRemovesFirst(es, node1, node2) ==
    IF GetEdgeIndex(es, node1, node2) # 0 THEN Tail(es) ELSE es
EdgesAfterRemoveEdge(es, node1, node2) ==
    IF GetEdgeIndex(es, node1, node2) # 0
    THEN RemoveAt(es, GetEdgeIndex(es, node1, node2))
    ELSE es

\* Graph.get_cost(node1, node2): the error raised, and the value returned.
GetCostError(es, node1, node2) ==
    IF GetEdgeIndex(es, node1, node2) # 0 THEN "none" ELSE "ValueError"
GetCostResult(es, node1, node2) ==
    IF GetEdgeIndex(es, node1, node2) # 0
    THEN es[GetEdgeIndex(es, node1, node2)].cost
    ELSE None

\* Graph.change_state(node, new_state): ValueError for a node not in the graph,
\* else GraphNode.change_state, which raises TypeError for a value that is no State.
GraphChangeStateError(ns, node, new_state) ==
    IF ~InNodes(ns, node) THEN "ValueError"
    ELSE IF new_state \notin State THEN "TypeError"
    ELSE "none"
StatesAfterChangeState(ns, st, node, new_state) ==
    IF GraphChangeStateError(ns, node, new_state) = "none"
    THEN [st EXCEPT ![node] = new_state]
    ELSE st

\* Graph.get_start / Graph.get_goal: the first node of self.nodes with that state.
GraphFirstWith(ns, st, s) ==
    LET hits == {i \in DOMAIN ns : st[ns[i]] = s}
    IN IF hits = {} THEN None ELSE ns[CHOOSE i \in hits : \A j \in hits : i <= j]
GraphGetStart(ns, st) == GraphFirstWith(ns, st, "START")
GraphGetGoal(ns, st) == GraphFirstWith(ns, st, "GOAL")

\* Graph.get_neighbors(node): the other end of every edge at the node, in edge order.
RECURSIVE GraphNeighborsFrom(_, _, _)
GraphNeighborsFrom(es, node, i) ==
    IF i > Len(es) THEN <<>>
    ELSE IF es[i].node1 = node THEN <<es[i].node2>> \o GraphNeighborsFrom(es, node, i + 1)
    ELSE IF es[i].node2 = node THEN <<es[i].node1>> \o GraphNeighborsFrom(es, node, i + 1)
    ELSE GraphNeighborsFrom(es, node, i + 1)

GraphGetNeighbors(es, node) == GraphNeighborsFrom(es, node, 1)

\* Graph.mark_edge_visited / mark_edge_path / mark_edge_frontier: the state of the
\* edge get_edge finds becomes s; nothing happens when there is no such edge.
MarkEdge(es, node1, node2, s) ==
    IF GetEdgeIndex(es, node1, node2) # 0
    THEN [es EXCEPT ![GetEdgeIndex(es, node1, node2)].state = s]
    ELSE es

\* euclidean_graph_heuristic(node, goal): (dx ** 2 + dy ** 2) ** 0.5.  The nodes
\* searched lie at positions whose distances are whole numbers, which the float
\* arithmetic gives exactly; ISqrt is the root of such a square.
ISqrt(n) == CHOOSE r \in 0 .. n : r * r = n
EuclideanGraphHeuristic(node, goal) ==
    ISqrt((npos[node][1] - npos[goal][1]) * (npos[node][1] - npos[goal][1])
          + (npos[node][2] - npos[goal][2]) * (npos[node][2] - npos[goal][2]))

(***************************************************************************)
(* algorithms.py: the engines.  An engine is held as a record e: its own   *)
(* fields, the node states st and the edge list es of its structure.  k is *)
(* the kind of the structure, "grid" or "graph"; a is the engine's class.  *)
(***************************************************************************)
Algs == {"BFS", "DFS", "Dijkstra", "AStar", "Greedy"}
HeapAlgs == {"Dijkstra", "AStar", "Greedy"}
CostAlgs == {"Dijkstra", "AStar"}
GoalAlgs == {"AStar", "Greedy"}

\* Python's None where an engine holds a node or looks for one: <<>> among the
\* squares of a grid, 0 among the node objects of a graph, numbered from 1.
NoNode(k) == IF k = "grid" THEN None ELSE 0

\* dict.get(key), with none standing for the None it returns, and dict[key] = value.
DictGet(d, key, none) == IF key \in DOMAIN d THEN d[key] ELSE none
DictSet(d, key, value) ==
    [x \in (DOMAIN d) \cup {key} |-> IF x = key THEN value ELSE d[x]]

\* self.structure.get_start() and get_goal().
StructGetStart(k, ns, st) ==
    IF k = "grid" THEN GridGetStart(st)
    ELSE IF \E i \in DOMAIN ns : st[ns[i]] = "START" THEN GraphGetStart(ns, st)
    ELSE NoNode(k)
StructGetGoal(k, ns, st) ==
    IF k = "grid" THEN GridGetGoal(st)
    ELSE IF \E i \in DOMAIN ns : st[ns[i]] = "GOAL" THEN GraphGetGoal(ns, st)
    ELSE NoNode(k)

\* The neighbor function and the cost function the screens hand to an engine.
StructGetNeighbors(k, es, node) ==
    IF k = "grid" THEN GridGetNeighbors(node) ELSE GraphGetNeighbors(es, node)
StructGetCost(k, es, node, neighbor) ==
    IF k = "grid" THEN GridGetMovingCost(node, neighbor)
    ELSE GetCostResult(es, node, neighbor)

\* The heuristic the screens hand to A* and Greedy: manhattan_heuristic on a grid,
\* euclidean_graph_heuristic on a graph.
Heuristic(k, node, goal) ==
    CASE k = "grid" -> ManhattanHeuristic(node, goal)
      [] k = "graph" -> EuclideanGraphHeuristic(node, goal)

\* hasattr(self.structure, "mark_edge_..."): only a Graph has these methods.
StructMarkEdge(k, es, node1, node2, s) ==
    IF k = "graph" THEN MarkEdge(es, node1, node2, s) ELSE es

\* change_state that leaves the node's state as it was.
NodeChangeStateDropped(st, node, new_state) == st

\* Square.change_state / GraphNode.change_state of a node with a State value.
NodeChangeState(st, node, new_state) == [st EXCEPT ![node] = new_state]

\* reset() of class a: Algorithm.reset, then the subclass's seeding.  BFS, DFS and
\* Dijkstra seed when there is a start; A* and Greedy when there is a start and a
\* goal.  A heap holds (priority, count, node) entries in the order of their push.
StartEntry(k, a, start, goal) ==
    CASE a \in {"BFS", "DFS"} -> start
      [] a \in CostAlgs -> <<0, 0, start>>
      [] a = "Greedy" -> <<Heuristic(k, start, goal), 0, start>>

\* A reset() that also wipes the paint of an earlier search off the nodes.
EngineAfterResetWipes(k, a, ns, st, es) ==
    LET start == StructGetStart(k, ns, st)
        goal == StructGetGoal(k, ns, st)
        seeded == IF a \in GoalAlgs THEN start # NoNode(k) /\ goal # NoNode(k)
                  ELSE start # NoNode(k)
    IN [frontier |-> IF seeded THEN <<StartEntry(k, a, start, goal)>> ELSE <<>>,
        visited |-> IF seeded THEN {start} ELSE {},
        parents |-> IF seeded THEN DictSet(<<>>, start, NoNode(k)) ELSE <<>>,
        costs |-> IF seeded /\ a \in CostAlgs THEN DictSet(<<>>, start, 0) ELSE <<>>,
        counter |-> IF seeded /\ a \in HeapAlgs THEN 1 ELSE 0,
        found |-> FALSE,
        path |-> <<>>,
        egoal |-> IF a \in GoalAlgs THEN goal ELSE NoNode(k),
        st |-> [n \in DOMAIN st |->
                   IF st[n] \in {"FRONTIER", "VISITED", "PATH"} THEN "ACTIVATED"
                   ELSE st[n]],
        es |-> es]

EngineAfterReset(k, a, ns, st, es) ==
    LET start == StructGetStart(k, ns, st)
        goal == StructGetGoal(k, ns, st)
        seeded == IF a \in GoalAlgs THEN start # NoNode(k) /\ goal # NoNode(k)
                  ELSE start # NoNode(k)
    IN [frontier |-> IF seeded THEN <<StartEntry(k, a, start, goal)>> ELSE <<>>,
        visited |-> IF seeded THEN {start} ELSE {},
        parents |-> IF seeded THEN DictSet(<<>>, start, NoNode(k)) ELSE <<>>,
        costs |-> IF seeded /\ a \in CostAlgs THEN DictSet(<<>>, start, 0) ELSE <<>>,
        counter |-> IF seeded /\ a \in HeapAlgs THEN 1 ELSE 0,
        found |-> FALSE,
        path |-> <<>>,
        egoal |-> IF a \in GoalAlgs THEN goal ELSE NoNode(k),
        st |-> st,
        es |-> es]

HeapMinNewestTie(heap) ==
    CHOOSE i \in DOMAIN heap : \A j \in DOMAIN heap :
        \/ heap[i][1] < heap[j][1]
        \/ (heap[i][1] = heap[j][1] /\ heap[i][2] >= heap[j][2])

\* heapq.heappop: the entry with the least (priority, count).
HeapMinIndex(heap) ==
    CHOOSE i \in DOMAIN heap : \A j \in DOMAIN heap :
        \/ heap[i][1] < heap[j][1]
        \/ (heap[i][1] = heap[j][1] /\ heap[i][2] <= heap[j][2])

\* A pop that reads the frontier's next entry and leaves it where it was.
StepPopKeeps(a, fr) ==
    CASE a = "BFS" -> [node |-> Head(fr), cost |-> 0, rest |-> fr]
      [] a = "DFS" -> [node |-> fr[Len(fr)], cost |-> 0, rest |-> fr]
      [] a \in HeapAlgs ->
            [node |-> fr[HeapMinIndex(fr)][3], cost |-> fr[HeapMinIndex(fr)][1],
             rest |-> fr]

\* The node step() takes from the frontier, the cost popped with it (Dijkstra reads
\* it), and the frontier left: queue.pop(0), stack.pop(), heapq.heappop(heap).
StepPopNewestFirst(a, fr) ==
    CASE a \in {"BFS", "DFS"} ->
            [node |-> fr[Len(fr)], cost |-> 0, rest |-> SubSeq(fr, 1, Len(fr) - 1)]
      [] a \in HeapAlgs ->
            [node |-> fr[HeapMinIndex(fr)][3], cost |-> fr[HeapMinIndex(fr)][1],
             rest |-> RemoveAt(fr, HeapMinIndex(fr))]
StepPop(a, fr) ==
    CASE a = "BFS" -> [node |-> Head(fr), cost |-> 0, rest |-> Tail(fr)]
      [] a = "DFS" ->
            [node |-> fr[Len(fr)], cost |-> 0, rest |-> SubSeq(fr, 1, Len(fr) - 1)]
      [] a \in HeapAlgs ->
            [node |-> fr[HeapMinIndex(fr)][3], cost |-> fr[HeapMinIndex(fr)][1],
             rest |-> RemoveAt(fr, HeapMinIndex(fr))]

\* A neighbor test that lets every state through.
NeighborOpenAny(e, neighbor) == TRUE

\* The body of step()'s loop for one neighbor.
NeighborOpen(e, neighbor) == e.st[neighbor] \in {"ACTIVATED", "GOAL"}

StepNewCostByMoves(k, a, e, node, c, neighbor) ==
    (IF a = "Dijkstra" THEN c ELSE e.costs[node]) + 1

StepNewCost(k, a, e, node, c, neighbor) ==
    (IF a = "Dijkstra" THEN c ELSE e.costs[node])
        + StructGetCost(k, e.es, node, neighbor)

NeighborTaken(k, a, e, node, c, neighbor) ==
    IF a \in CostAlgs
    THEN /\ NeighborOpen(e, neighbor)
         /\ \/ neighbor \notin DOMAIN e.costs
            \/ StepNewCost(k, a, e, node, c, neighbor) < e.costs[neighbor]
    ELSE neighbor \notin e.visited /\ NeighborOpen(e, neighbor)

PushEntry(k, a, e, node, c, neighbor) ==
    CASE a \in {"BFS", "DFS"} -> neighbor
      [] a = "Dijkstra" ->
            <<StepNewCost(k, a, e, node, c, neighbor), e.counter, neighbor>>
      [] a = "AStar" ->
            <<StepNewCost(k, a, e, node, c, neighbor)
                  + Heuristic(k, neighbor, e.egoal), e.counter, neighbor>>
      [] a = "Greedy" -> <<Heuristic(k, neighbor, e.egoal), e.counter, neighbor>>

VisitNeighbor(k, a, e, node, c, neighbor) ==
    IF ~NeighborTaken(k, a, e, node, c, neighbor) THEN e
    ELSE [e EXCEPT
            !.frontier = Append(@, PushEntry(k, a, e, node, c, neighbor)),
            !.counter = IF a \in HeapAlgs THEN @ + 1 ELSE @,
            !.visited = IF a \in CostAlgs THEN @ ELSE @ \cup {neighbor},
            !.costs = IF a \in CostAlgs
                      THEN DictSet(@, neighbor, StepNewCost(k, a, e, node, c, neighbor))
                      ELSE @,
            !.parents = DictSet(@, neighbor, node),
            !.found = IF e.st[neighbor] = "GOAL" THEN TRUE ELSE @,
            !.st = IF e.st[neighbor] = "ACTIVATED"
                   THEN NodeChangeState(@, neighbor, "FRONTIER") ELSE @,
            !.es = StructMarkEdge(k, @, node, neighbor, "FRONTIER")]

RECURSIVE VisitNeighborsStopAtGoal(_, _, _, _, _, _, _)
VisitNeighborsStopAtGoal(k, a, e, node, c, neighbors, i) ==
    IF i > Len(neighbors) \/ e.found THEN e
    ELSE VisitNeighborsStopAtGoal(k, a, VisitNeighbor(k, a, e, node, c, neighbors[i]),
                                  node, c, neighbors, i + 1)
RECURSIVE VisitNeighbors(_, _, _, _, _, _, _)
VisitNeighbors(k, a, e, node, c, neighbors, i) ==
    IF i > Len(neighbors) THEN e
    ELSE VisitNeighbors(k, a, VisitNeighbor(k, a, e, node, c, neighbors[i]),
                        node, c, neighbors, i + 1)

\* step() that goes on while its frontier holds a node, found or not.
StepReturnIgnoresFound(e) == e.frontier # <<>>

\* step(): its return value, and the engine and structure afterwards.
StepReturn(e) == ~(e.frontier = <<>> \/ e.found)

StepMarkVisited(st, node) ==
    IF st[node] # "START" /\ st[node] # "GOAL"
    THEN NodeChangeState(st, node, "VISITED")
    ELSE st

\* The callable handed to the constructor as get_neighbors: the structure's own
\* bound method, as the screens hand it, or a function that returns the
\* structure's neighbors in the opposite order, or only the first of them.
NeighborFunctions == {"get_neighbors", "reversed", "first_only"}

SuppliedNeighbors(f, k, es, node) ==
    LET own == StructGetNeighbors(k, es, node)
    IN CASE f = "get_neighbors" -> own
         [] f = "reversed" -> [i \in 1 .. Len(own) |-> own[Len(own) + 1 - i]]
         [] f = "first_only" -> SubSeq(own, 1, 1)

\* The neighbors step() iterates over: self.get_neighbors(node) in BFS, Dijkstra,
\* A* and Greedy, self.structure.get_neighbors(node) in DFS.
StepNeighbors(k, a, f, es, node) ==
    IF a = "DFS" THEN StructGetNeighbors(k, es, node)
    ELSE SuppliedNeighbors(f, k, es, node)

EngineAfterStepWith(k, a, e, f) ==
    IF ~StepReturn(e) THEN e
    ELSE LET popped == StepPop(a, e.frontier)
             node == popped.node
             parent == DictGet(e.parents, node, NoNode(k))
             dequeued ==
                [e EXCEPT
                    !.frontier = popped.rest,
                    !.es = IF parent # NoNode(k)
                           THEN StructMarkEdge(k, @, parent, node, "VISITED") ELSE @,
                    !.st = StepMarkVisited(@, node)]
         IN VisitNeighbors(k, a, dequeued, node, popped.cost,
                           StepNeighbors(k, a, f, e.es, node), 1)

\* step() of an engine built with the structure's own get_neighbors.
EngineAfterStep(k, a, e) == EngineAfterStepWith(k, a, e, "get_neighbors")

\* highlight_path(): from the structure's current goal along parents.  Each node
\* of the chain that is neither START nor GOAL becomes PATH; every node of the
\* chain is appended to self.path.  left bounds the walk by the number of nodes.
RECURSIVE HighlightFrom(_, _, _, _)
HighlightFrom(k, e, node, left) ==
    IF node = NoNode(k) \/ left = 0 THEN e
    ELSE LET parent == DictGet(e.parents, node, NoNode(k))
         IN HighlightFrom(k,
                [e EXCEPT
                    !.st = IF @[node] # "START" /\ @[node] # "GOAL"
                           THEN NodeChangeState(@, node, "PATH") ELSE @,
                    !.es = IF parent # NoNode(k)
                           THEN StructMarkEdge(k, @, node, parent, "PATH") ELSE @,
                    !.path = Append(@, node)],
                parent, left - 1)

HighlightPathPaintsGoal(k, e, ns) ==
    IF StructGetGoal(k, ns, e.st) = NoNode(k) THEN e
    ELSE HighlightFrom(k, [e EXCEPT !.st = NodeChangeState(@, StructGetGoal(k, ns, e.st), "PATH")],
                       StructGetGoal(k, ns, e.st), Cardinality(DOMAIN e.st))
EngineAfterHighlightPath(k, e, ns) ==
    IF StructGetGoal(k, ns, e.st) = NoNode(k) THEN e
    ELSE HighlightFrom(k, e, StructGetGoal(k, ns, e.st), Cardinality(DOMAIN e.st))

(***************************************************************************)
(* algorithms.py: generate_maze_prim.  A wall is the tuple                 *)
(* (wall_row, wall_col, n_row, n_col).                                     *)
(***************************************************************************)
MazeDirections == << <<-2, 0>>, <<2, 0>>, <<0, -2>>, <<0, 2>> >>

\* range(0, n, 2), the values random.randrange(0, n, 2) may return.
EvenBelow(n) == {x \in 0 .. n - 1 : x % 2 = 0}

\* The walls appended around (row, col), in the order of the directions: those whose
\* far cell is in bounds and, once carving has begun, still DEACTIVATED.
RECURSIVE WallsAround(_, _, _, _, _)
WallsAround(g, row, col, carving, i) ==
    IF i > Len(MazeDirections) THEN <<>>
    ELSE LET d_row == MazeDirections[i][1]
             d_col == MazeDirections[i][2]
             n_row == row + d_row
             n_col == col + d_col
             rest == WallsAround(g, row, col, carving, i + 1)
         IN IF /\ InBounds(n_row, n_col)
               /\ (carving => g[<<n_row, n_col>>] = "DEACTIVATED")
            THEN << <<row + (d_row \div 2), col + (d_col \div 2), n_row, n_col>> >> \o rest
            ELSE rest

\* A first phase that leaves each cell's tag and only opens the seed.
MazeSeededKeepsTags(g, start_row, start_col) ==
    [cell \in DOMAIN g |->
        IF cell = <<start_row, start_col>> THEN "ACTIVATED" ELSE g[cell]]

\* The grid after the first two phases: every cell DEACTIVATED, the seed ACTIVATED.
MazeSeeded(g, start_row, start_col) ==
    [cell \in DOMAIN g |->
        IF cell = <<start_row, start_col>> THEN "ACTIVATED" ELSE "DEACTIVATED"]

\* One turn of the while loop on the wall popped from position idx.
MazeCarves(g, wall) ==
    InBounds(wall[3], wall[4]) /\ g[<<wall[3], wall[4]>>] = "DEACTIVATED"
MazeCarvesWithoutPassage(g, wall) ==
    IF MazeCarves(g, wall)
    THEN [cell \in DOMAIN g |->
            IF cell = <<wall[3], wall[4]>> THEN "ACTIVATED" ELSE g[cell]]
    ELSE g
MazeOpensEveryWall(g, wall) ==
    [cell \in DOMAIN g |->
        IF \/ cell = <<wall[1], wall[2]>>
           \/ MazeCarves(g, wall) /\ cell = <<wall[3], wall[4]>>
        THEN "ACTIVATED" ELSE g[cell]]
MazeGridAfterWall(g, wall) ==
    IF MazeCarves(g, wall)
    THEN [cell \in DOMAIN g |->
            IF cell = <<wall[1], wall[2]>> \/ cell = <<wall[3], wall[4]>>
            THEN "ACTIVATED" ELSE g[cell]]
    ELSE g
MazeWallsAfterWall(g, ws, idx) ==
    IF MazeCarves(g, ws[idx])
    THEN RemoveAt(ws, idx)
            \o WallsAround(MazeGridAfterWall(g, ws[idx]), ws[idx][3], ws[idx][4], TRUE, 1)
    ELSE RemoveAt(ws, idx)

\* Every grid the while loop can end with, over the choices of random.randrange.
RECURSIVE MazeOutcomes(_, _)
MazeOutcomes(g, ws) ==
    IF ws = <<>> THEN {g}
    ELSE UNION {MazeOutcomes(MazeGridAfterWall(g, ws[idx]), MazeWallsAfterWall(g, ws, idx))
                    : idx \in DOMAIN ws}

GridsAfterMaze(g, start_row, start_col) ==
    MazeOutcomes(MazeSeeded(g, start_row, start_col),
                 WallsAround(MazeSeeded(g, start_row, start_col),
                             start_row, start_col, FALSE, 1))

(***************************************************************************)
(* The calls recorded in last.                                             *)
(***************************************************************************)
NoCall == [op |-> "init"]

\* Positions offered to Grid.get and Grid.change_state: every cell of the grid and
\* one position beyond each of its four edges.
PosArgs ==
    Cells \cup {<<-1, 0>>, <<height, 0>>, <<0, -1>>, <<0, width>>}

\* Graph.__init__: no nodes, no edges.
NoGraph ==
    /\ nodes = <<>>
    /\ npos = <<>>
    /\ nstate = <<>>
    /\ edges = <<>>

\* No engine has been constructed.
NoEngine ==
    /\ structure = "none"
    /\ alg = "none"
    /\ frontier = <<>>
    /\ visited = {}
    /\ parents = <<>>
    /\ costs = <<>>
    /\ counter = 0
    /\ found = FALSE
    /\ path = <<>>
    /\ egoal = None

\* A specification about a graph alone holds this one-cell grid, never used.
NoGrid ==
    /\ height = 1
    /\ width = 1
    /\ geom = DefaultGeom
    /\ grid = NewGrid(1, 1)
    /\ cost = NewCost(1, 1)

(***************************************************************************)
(* Actions on the grid.                                                    *)
(***************************************************************************)
\* Grid.change_state(row, col, new_state) with the position and the value drawn
\* from the given sets.  The record of the call keeps what the caller could have
\* read just before it: for a START or GOAL request the square that held that tag,
\* for an ACTIVATED request the target's tag.
GridChangeStateOn(positions, values) ==
    \E pos \in positions, new_state \in values :
        /\ grid' = GridAfterChangeState(grid, pos[1], pos[2], new_state)
        /\ last' = [op |-> "change_state", row |-> pos[1], col |-> pos[2],
                    new_state |-> new_state,
                    err |-> ChangeStateError(pos[1], pos[2], new_state),
                    was |-> IF new_state = "ACTIVATED" /\ pos \in Cells
                            THEN grid[pos] ELSE "n/a",
                    prev |-> IF new_state \in {"START", "GOAL"}
                             THEN FirstWith(grid, new_state) ELSE None]
        /\ UNCHANGED <<height, width, geom, cost>>
        /\ UNCHANGED <<graphVars, engineVars>>

\* A call on a cell of the grid with a State.
GridChangeState == GridChangeStateOn(Cells, State) /\ UNCHANGED edits

\* A call with any position, in the grid or beyond an edge, and any value, a State
\* or not.
GridChangeStateAny ==
    GridChangeStateOn(PosArgs, State \cup {NotAState}) /\ UNCHANGED edits

\* A call on a cell of the grid with a State, in a run that makes at most MaxEdits
\* such calls; the record keeps only that the call was made.
GridEdit ==
    /\ edits < MaxEdits
    /\ \E pos \in Cells, new_state \in State :
            grid' = GridAfterChangeState(grid, pos[1], pos[2], new_state)
    /\ edits' = edits + 1
    /\ last' = [op |-> "edit"]
    /\ UNCHANGED <<height, width, geom, cost, graphVars, engineVars>>

\* Grid.get((row, col)): the square (here its index pair) or an IndexError.
GridGet ==
    \E pos \in PosArgs :
        /\ last' = [op |-> "get", row |-> pos[1], col |-> pos[2],
                    err |-> GetError(pos[1], pos[2]),
                    ret |-> IF GetError(pos[1], pos[2]) = "none" THEN pos ELSE None]
        /\ UNCHANGED <<gridVars, graphVars, engineVars, edits>>

(***************************************************************************)
(* SpecGrid: a freshly constructed grid of any shape with at most MaxCells *)
(* cells, edited through Grid.change_state.                                *)
(* SpecGridErr: a grid with at most MaxErrCells cells, with calls of       *)
(* Grid.change_state and Grid.get that may fail.                           *)
(***************************************************************************)
ShapesUpTo(n) == {hw \in (1 .. n) \X (1 .. n) : hw[1] * hw[2] <= n}

InitGridOf(shapes) ==
    /\ \E hw \in shapes :
        /\ height = hw[1]
        /\ width = hw[2]
        /\ grid = NewGrid(hw[1], hw[2])
        /\ cost = NewCost(hw[1], hw[2])
    /\ geom = DefaultGeom
    /\ NoGraph
    /\ NoEngine
    /\ edits = 0
    /\ last = NoCall

InitGridUpTo(n) == InitGridOf(ShapesUpTo(n))

InitGrid == InitGridUpTo(MaxCells)

NextGrid == GridChangeState

SpecGrid == InitGrid /\ [][NextGrid]_vars

InitGridErr == InitGridUpTo(MaxErrCells)

NextGridErr == GridChangeStateAny \/ GridGet

SpecGridErr == InitGridErr /\ [][NextGridErr]_vars

(***************************************************************************)
(* SpecNeighbors: Grid.get_neighbors on grids of every shape up to         *)
(* MaxDim x MaxDim, built with Grid.__init__'s default geometry or, for    *)
(* square grids, with the geometry the grid screens compute; at most one   *)
(* cell has been given another tag.                                        *)
(***************************************************************************)
\* Grid.get_neighbors(square) for the square at a cell of the grid.
GetNeighbors ==
    \E cell \in Cells :
        /\ last' = [op |-> "get_neighbors", cell |-> cell, ret |-> GridGetNeighbors(cell)]
        /\ UNCHANGED <<gridVars, graphVars, engineVars, edits>>

InitNeighbors ==
    /\ \E h \in 1 .. MaxDim, w \in 1 .. MaxDim :
        /\ height = h
        /\ width = w
        /\ geom \in {DefaultGeom} \cup (IF h = w THEN {ScreenGeom(h)} ELSE {})
        /\ grid \in {NewGrid(h, w)} \cup
                    {[NewGrid(h, w) EXCEPT ![cell] = s] : cell \in CellsOf(h, w), s \in State}
        /\ cost = NewCost(h, w)
    /\ NoGraph
    /\ NoEngine
    /\ edits = 0
    /\ last = NoCall

NextNeighbors == GetNeighbors

SpecNeighbors == InitNeighbors /\ [][NextNeighbors]_vars

(***************************************************************************)
(* Actions on the graph.                                                   *)
(***************************************************************************)
\* Positions given to Graph.add_node: those of GraphScreen.__init__'s test graph,
\* the k-th node object created getting the k-th of them.
TestGraphPoints ==
    << <<150, 200>>, <<300, 150>>, <<450, 200>>, <<600, 150>>,
       <<500, 600>>, <<600, 300>>, <<450, 350>>, <<300, 300>> >>
PointOf(id) == TestGraphPoints[((id - 1) % Len(TestGraphPoints)) + 1]

\* The number of edges with the node as an endpoint.
Touching(es, node) ==
    Cardinality({i \in DOMAIN es : es[i].node1 = node \/ es[i].node2 = node})

\* Graph.add_node(x, y): at most MaxNodes node objects are created.
GraphAddNode ==
    /\ Len(nstate) < MaxNodes
    /\ nodes' = Append(nodes, NewNodeId)
    /\ npos' = Append(npos, PointOf(NewNodeId))
    /\ nstate' = Append(nstate, "ACTIVATED")
    /\ last' = [op |-> "add_node", ret |-> NewNodeId]
    /\ UNCHANGED <<gridVars, edges, engineVars, edits>>

\* Graph.remove_node(node) for any node object, in the graph or removed earlier.
GraphRemoveNode ==
    \E node \in Created :
        /\ nodes' = NodesAfterRemoveNode(nodes, node)
        /\ edges' = EdgesAfterRemoveNode(nodes, edges, node)
        /\ last' = [op |-> "remove_node", node |-> node, err |-> "none",
                    present |-> InNodes(nodes, node),
                    touching |-> Touching(edges, node)]
        /\ UNCHANGED <<gridVars, npos, nstate, engineVars, edits>>

\* Graph.add_edge(node1, node2) for any two node objects; the graph holds at most
\* MaxEdges edges.
GraphAddEdge ==
    \E node1 \in Created, node2 \in Created :
        /\ Len(EdgesAfterAddEdge(nodes, edges, node1, node2)) <= MaxEdges
        /\ edges' = EdgesAfterAddEdge(nodes, edges, node1, node2)
        /\ last' = [op |-> "add_edge", node1 |-> node1, node2 |-> node2, err |-> "none"]
        /\ UNCHANGED <<gridVars, nodes, npos, nstate, engineVars, edits>>

\* Graph.remove_edge(node1, node2) for any two node objects.
GraphRemoveEdge ==
    \E node1 \in Created, node2 \in Created :
        /\ edges' = EdgesAfterRemoveEdge(edges, node1, node2)
        /\ last' = [op |-> "remove_edge", node1 |-> node1, node2 |-> node2,
                    err |-> RemoveEdgeError(edges, node1, node2),
                    index |-> GetEdgeIndex(edges, node1, node2),
                    reversed |-> \E i \in DOMAIN edges : JoinsOneWay(edges[i], node2, node1)]
        /\ UNCHANGED <<gridVars, nodes, npos, nstate, engineVars, edits>>

\* Graph.get_cost(node1, node2) for any two node objects.
GraphGetCost ==
    \E node1 \in Created, node2 \in Created :
        /\ last' = [op |-> "get_cost", node1 |-> node1, node2 |-> node2,
                    err |-> GetCostError(edges, node1, node2),
                    ret |-> GetCostResult(edges, node1, node2)]
        /\ UNCHANGED <<gridVars, graphVars, engineVars, edits>>

\* Graph.change_state(node, new_state) for any node object and any value.
GraphChangeState ==
    \E node \in Created, new_state \in State \cup {NotAState} :
        /\ nstate' = StatesAfterChangeState(nodes, nstate, node, new_state)
        /\ last' = [op |-> "graph_change_state", node |-> node, new_state |-> new_state,
                    err |-> GraphChangeStateError(nodes, node, new_state)]
        /\ UNCHANGED <<gridVars, nodes, npos, edges, engineVars, edits>>

(***************************************************************************)
(* SpecGraph: an empty graph changed through add_node, remove_node,        *)
(* add_edge and remove_edge and read through get_cost.                     *)
(***************************************************************************)
InitGraph == NoGrid /\ NoGraph /\ NoEngine /\ edits = 0 /\ last = NoCall

NextGraph ==
    \/ GraphAddNode
    \/ GraphRemoveNode
    \/ GraphAddEdge
    \/ GraphRemoveEdge
    \/ GraphGetCost

SpecGraph == InitGraph /\ [][NextGraph]_vars

(***************************************************************************)
(* SpecGraphState: nodes added to and removed from an empty graph and      *)
(* tagged through Graph.change_state.                                      *)
(***************************************************************************)
NextGraphState ==
    \/ GraphAddNode
    \/ GraphRemoveNode
    \/ GraphChangeState

SpecGraphState == InitGraph /\ [][NextGraphState]_vars

(***************************************************************************)
(* Actions of an engine and of the maze generator.                         *)
(***************************************************************************)
\* The engine with the states and edges of its structure, as a record.
StatesOf(k) == IF k = "grid" THEN grid ELSE nstate

Engine ==
    [frontier |-> frontier, visited |-> visited, parents |-> parents,
     costs |-> costs, counter |-> counter, found |-> found, path |-> path,
     egoal |-> egoal, st |-> StatesOf(structure), es |-> edges]

\* The assignments an engine method makes, to itself and to its structure.
Becomes(k, e) ==
    /\ frontier' = e.frontier
    /\ visited' = e.visited
    /\ parents' = e.parents
    /\ costs' = e.costs
    /\ counter' = e.counter
    /\ found' = e.found
    /\ path' = e.path
    /\ egoal' = e.egoal
    /\ IF k = "grid"
       THEN grid' = e.st /\ UNCHANGED <<nstate, edges>>
       ELSE nstate' = e.st /\ edges' = e.es /\ UNCHANGED grid
    /\ UNCHANGED <<height, width, geom, cost, nodes, npos>>

\* BFSAlgorithm(grid, ...), DFSAlgorithm(grid, ...), ...: __init__ calls reset().
GridEngineNew ==
    \E a \in Algs :
        /\ structure' = "grid"
        /\ alg' = a
        /\ Becomes("grid", EngineAfterReset("grid", a, nodes, grid, edges))
        /\ last' = [op |-> "new", alg |-> a]
        /\ UNCHANGED edits

\* BFSAlgorithm(graph, ...), DFSAlgorithm(graph, ...), ...: __init__ calls reset().
GraphEngineNew ==
    \E a \in Algs :
        /\ structure' = "graph"
        /\ alg' = a
        /\ Becomes("graph", EngineAfterReset("graph", a, nodes, nstate, edges))
        /\ last' = [op |-> "new", alg |-> a]
        /\ UNCHANGED edits

\* algorithm.reset().
EngineReset ==
    /\ alg # "none"
    /\ Becomes(structure, EngineAfterReset(structure, alg, nodes, StatesOf(structure), edges))
    /\ last' = [op |-> "reset"]
    /\ UNCHANGED <<structure, alg, edits>>

\* algorithm.step().
EngineStep ==
    /\ alg # "none"
    /\ Becomes(structure, EngineAfterStep(structure, alg, Engine))
    /\ last' = [op |-> "step", ret |-> StepReturn(Engine)]
    /\ UNCHANGED <<structure, alg, edits>>

\* algorithm.highlight_path(); self.path is never cleared between calls, so the
\* call is offered while the path stays within MaxPath entries.
EngineHighlightPath ==
    /\ alg # "none"
    /\ Len(EngineAfterHighlightPath(structure, Engine, nodes).path) <= MaxPath
    /\ Becomes(structure, EngineAfterHighlightPath(structure, Engine, nodes))
    /\ last' = [op |-> "highlight_path"]
    /\ UNCHANGED <<structure, alg, edits>>

\* generate_maze_prim(grid).
GenerateMazePrim ==
    \E start_row \in EvenBelow(height), start_col \in EvenBelow(width) :
        \E g \in GridsAfterMaze(grid, start_row, start_col) :
            /\ grid' = g
            /\ last' = [op |-> "generate_maze_prim", seed |-> <<start_row, start_col>>]
            /\ UNCHANGED <<height, width, geom, cost, graphVars, engineVars, edits>>

(***************************************************************************)
(* SpecEngineGrid: a fresh grid of one of the shapes EngineShapes, edited   *)
(* through at most MaxEdits calls of Grid.change_state, searched by        *)
(* engines of the five classes                                             *)
(* (constructed, reset, stepped, highlighted, in any order) and rebuilt by *)
(* the maze generator.                                                     *)
(***************************************************************************)
\* A row of three cells, the least grid on which the maze generator carves and an
\* engine passes a cell between start and goal, and a column of two.
EngineShapes == {<<1, 3>>, <<2, 1>>}

InitEngineGrid == InitGridOf(EngineShapes)

NextEngineGrid ==
    \/ GridEdit
    \/ GridEngineNew
    \/ EngineReset
    \/ EngineStep
    \/ EngineHighlightPath
    \/ GenerateMazePrim

SpecEngineGrid == InitEngineGrid /\ [][NextEngineGrid]_vars

(***************************************************************************)
(* SpecEngineRun: a structure prepared beforehand and then left to one     *)
(* engine at a time, as the screens do: a grid of one of the shapes        *)
(* RunShapes whose cells are walls or free, with at most one START and at  *)
(* most one GOAL, or a graph of three nodes tagged through                 *)
(* Graph.change_state and joined by one of the edge lists RunEdgeLists.    *)
(* Engines of the five classes are constructed, reset, stepped and         *)
(* highlighted in any order.                                               *)
(***************************************************************************)
RunShapes == {<<1, 3>>, <<2, 2>>}

\* The grids of a shape that Grid.change_state can prepare for a search.
PreparedGrids(h, w) ==
    {g \in [CellsOf(h, w) -> {"ACTIVATED", "DEACTIVATED", "START", "GOAL"}] :
        /\ Cardinality({cell \in CellsOf(h, w) : g[cell] = "START"}) <= 1
        /\ Cardinality({cell \in CellsOf(h, w) : g[cell] = "GOAL"}) <= 1}

\* Positions given to Graph.add_node for the three nodes: their distances are 3, 4
\* and 5.
RunPoints == << <<0, 0>>, <<3, 0>>, <<3, 4>> >>

\* The edges Graph.add_edge has appended: a chain, and a triangle.
RunEdgeLists ==
    { <<NewEdge(1, 2), NewEdge(2, 3)>>,
      <<NewEdge(1, 3), NewEdge(3, 2), NewEdge(1, 2)>> }

InitRunGrid ==
    /\ \E hw \in RunShapes :
        /\ height = hw[1]
        /\ width = hw[2]
        /\ grid \in PreparedGrids(hw[1], hw[2])
        /\ cost = NewCost(hw[1], hw[2])
    /\ geom = DefaultGeom
    /\ NoGraph

InitRunGraph ==
    /\ NoGrid
    /\ nodes = <<1, 2, 3>>
    /\ npos = RunPoints
    /\ nstate \in [1 .. 3 -> {"ACTIVATED", "START", "GOAL"}]
    /\ edges \in RunEdgeLists

InitEngineRun ==
    /\ InitRunGrid \/ InitRunGraph
    /\ NoEngine
    /\ edits = 0
    /\ last = NoCall

\* An engine is bound to the structure that was prepared.
NextEngineRun ==
    \/ (nodes = <<>> /\ GridEngineNew)
    \/ (nodes # <<>> /\ GraphEngineNew)
    \/ EngineReset
    \/ EngineStep
    \/ EngineHighlightPath

SpecEngineRun == InitEngineRun /\ [][NextEngineRun]_vars

(***************************************************************************)
(* The screens' run of an engine: one is built on the prepared structure   *)
(* and update_algorithm is called each frame while running_algorithm is    *)
(* set.                                                                    *)
(***************************************************************************)
\* local_app_state.running_algorithm: set when the engine is built, cleared by the
\* update_algorithm call whose step() returned false.
RunningAlgorithm ==
    \/ last.op = "new"
    \/ (last.op = "update_algorithm" /\ last.ret)

\* The step() calls made since the engine was built.
StepCalls == IF last.op = "update_algorithm" THEN last.calls ELSE 0

\* BaseGridScreen.update_algorithm: step(), and highlight_path() when it returned
\* false.
UpdateAlgorithm ==
    /\ alg # "none"
    /\ RunningAlgorithm
    /\ LET ret == StepReturn(Engine)
           stepped == EngineAfterStep(structure, alg, Engine)
       IN /\ Becomes(structure,
                     IF ret THEN stepped
                     ELSE EngineAfterHighlightPath(structure, stepped, nodes))
          /\ last' = [op |-> "update_algorithm", ret |-> ret, calls |-> StepCalls + 1]
    /\ UNCHANGED <<structure, alg, edits>>

(***************************************************************************)
(* SpecSearchOpen: a 5 x 5 grid with every cell ACTIVATED but a START and  *)
(* a GOAL placed anywhere, searched once by an engine of any class, run by *)
(* the screen until step() returns false.                                  *)
(***************************************************************************)
OpenShapes == {<<5, 5>>}

\* The grid after change_state(.., START) and change_state(.., GOAL) on two cells.
OpenGrids(h, w) ==
    {[[NewGrid(h, w) EXCEPT ![sg[1]] = "START"] EXCEPT ![sg[2]] = "GOAL"] :
        sg \in {p \in CellsOf(h, w) \X CellsOf(h, w) : p[1] # p[2]}}

InitSearchOpen ==
    /\ \E hw \in OpenShapes :
        /\ height = hw[1]
        /\ width = hw[2]
        /\ grid \in OpenGrids(hw[1], hw[2])
        /\ cost = NewCost(hw[1], hw[2])
    /\ geom = DefaultGeom
    /\ NoGraph
    /\ NoEngine
    /\ edits = 0
    /\ last = NoCall

NextSearchOpen ==
    \/ (alg = "none" /\ GridEngineNew)
    \/ UpdateAlgorithm

SpecSearchOpen == InitSearchOpen /\ [][NextSearchOpen]_vars

(***************************************************************************)
(* A whole run as an operator: what the frames of update_algorithm leave   *)
(* of an engine of class a built on a structure with node states st and    *)
(* edges es.                                                               *)
(***************************************************************************)
\* step() repeated while it returns true.
RECURSIVE RunSteps(_, _, _)
RunSteps(k, a, e) ==
    IF ~StepReturn(e) THEN e ELSE RunSteps(k, a, EngineAfterStep(k, a, e))

\* The engine when step() first returns false, and after the highlight_path()
\* that follows.
SearchStopped(k, a, ns, st, es) == RunSteps(k, a, EngineAfterReset(k, a, ns, st, es))
SearchEnded(k, a, ns, st, es) ==
    EngineAfterHighlightPath(k, SearchStopped(k, a, ns, st, es), ns)

\* The node states a search started from: an engine paints only nodes that were
\* ACTIVATED (BaseGridScreen keeps them in grid_reset_state and restores them
\* before the next search).
StatesBeforeSearch(st) ==
    [n \in DOMAIN st |->
        IF st[n] \in {"FRONTIER", "VISITED", "PATH"} THEN "ACTIVATED" ELSE st[n]]

\* The total movement cost of a path held as highlight_path() leaves it, GOAL
\* first: each move from p[i + 1] to p[i] costs what the cost function returns.
RECURSIVE PathCostFrom(_, _, _, _)
PathCostFrom(k, es, p, i) ==
    IF i >= Len(p) THEN 0
    ELSE StructGetCost(k, es, p[i + 1], p[i]) + PathCostFrom(k, es, p, i + 1)
PathCost(k, es, p) == PathCostFrom(k, es, p, 1)

\* The nodes in state VISITED.
VisitedCount(st) == Cardinality({n \in DOMAIN st : st[n] = "VISITED"})

(***************************************************************************)
(* SpecSearchWeighted: Dijkstra and A* run by the screen on a weighted     *)
(* structure: a 2 x 4 grid with every cost map over CostValues, START in   *)
(* the first column and GOAL in the last; the 4 x 4 grid loaded from the   *)
(* cost map WeightedMap with two walls, START and GOAL on any two free     *)
(* cells; or the graph LineEdges on five nodes of one line, START and GOAL *)
(* on any two nodes.                                                       *)
(***************************************************************************)
CostValues == {1, 2, 3}

\* A costs.txt as load_grid_costs returns it, and its two walls.
WeightedMap == << <<3, 2, 1, 1>>, <<2, 2, 3, 2>>, <<2, 1, 1, 1>>, <<1, 2, 3, 1>> >>
WeightedWalls == {<<2, 1>>, <<2, 2>>}

\* Grid.__init__ with customizable_cost: the square at (row, col) costs
\* costs[row][col].
CostOfMap(rows) ==
    [cell \in CellsOf(Len(rows), Len(rows[1])) |-> rows[cell[1] + 1][cell[2] + 1]]

\* The grid after the cells of walls were given DEACTIVATED and two other cells
\* START and GOAL.
WalledGrids(h, w, walls) ==
    {[cell \in CellsOf(h, w) |->
        IF cell \in walls /\ gr[cell] = "ACTIVATED" THEN "DEACTIVATED" ELSE gr[cell]] :
        gr \in {o \in OpenGrids(h, w) : \A cell \in walls : o[cell] = "ACTIVATED"}}

\* Five nodes on one line, at distances that are whole numbers, and the edges
\* added between them: two from node 1 to node 5 through node 2, three through
\* nodes 3 and 4.
LinePoints == << <<8, 0>>, <<0, 0>>, <<11, 0>>, <<13, 0>>, <<14, 0>> >>
LineEdges ==
    <<NewEdge(1, 2), NewEdge(2, 5), NewEdge(1, 3), NewEdge(3, 4), NewEdge(4, 5)>>

InitWeightedGrid ==
    /\ \/ /\ height = 2
          /\ width = 4
          /\ cost \in [CellsOf(2, 4) -> CostValues]
          /\ grid \in {gr \in OpenGrids(2, 4) :
                          /\ \E row \in 0 .. 1 : gr[<<row, 0>>] = "START"
                          /\ \E row \in 0 .. 1 : gr[<<row, 3>>] = "GOAL"}
       \/ /\ height = Len(WeightedMap)
          /\ width = Len(WeightedMap[1])
          /\ cost = CostOfMap(WeightedMap)
          /\ grid \in WalledGrids(Len(WeightedMap), Len(WeightedMap[1]), WeightedWalls)
    /\ geom = DefaultGeom
    /\ NoGraph

InitWeightedGraph ==
    /\ NoGrid
    /\ nodes = <<1, 2, 3, 4, 5>>
    /\ npos = LinePoints
    /\ nstate \in {[[[n \in 1 .. 5 |-> "ACTIVATED"] EXCEPT ![sg[1]] = "START"]
                        EXCEPT ![sg[2]] = "GOAL"] :
                        sg \in {p \in (1 .. 5) \X (1 .. 5) : p[1] # p[2]}}
    /\ edges = LineEdges

InitSearchWeighted ==
    /\ InitWeightedGrid \/ InitWeightedGraph
    /\ NoEngine
    /\ edits = 0
    /\ last = NoCall

NextSearchWeighted ==
    \/ (alg = "none" /\ nodes = <<>> /\ GridEngineNew /\ alg' \in CostAlgs)
    \/ (alg = "none" /\ nodes # <<>> /\ GraphEngineNew /\ alg' \in CostAlgs)
    \/ UpdateAlgorithm

SpecSearchWeighted == InitSearchWeighted /\ [][NextSearchWeighted]_vars

(***************************************************************************)
(* SpecMaze: generate_maze_prim on a fresh grid of any shape in MazeShapes *)
(* (rows and columns odd and even, single rows and single columns), over   *)
(* every seed and every order in which the walls can be drawn; the         *)
(* generator may be run again on the maze it left.                         *)
(***************************************************************************)
MazeShapes == ((1 .. 4) \X (1 .. 5)) \cup {<<5, 1>>, <<5, 2>>, <<5, 3>>}

InitMaze == InitGridOf(MazeShapes)

NextMaze == GenerateMazePrim

SpecMaze == InitMaze /\ [][NextMaze]_vars

(***************************************************************************)
(* SpecCostFile: generate_costs.py draws a cost map and writes costs.txt;  *)
(* Grid.__init__ reads it back.  A text is the sequence of its characters. *)
(***************************************************************************)
DigitChars == <<"0", "1", "2", "3", "4", "5", "6", "7", "8", "9">>
Whitespace == {" ", "\n"}

\* str(val) of an int: its decimal digits, after a minus sign when negative.
RECURSIVE DigitsOf(_)
DigitsOf(n) ==
    IF n < 10 THEN <<DigitChars[n + 1]>>
    ELSE DigitsOf(n \div 10) \o <<DigitChars[(n % 10) + 1]>>
PyStr(val) == IF val < 0 THEN <<"-">> \o DigitsOf(-val) ELSE DigitsOf(val)

\* sep.join(parts).
RECURSIVE Join(_, _)
Join(sep, parts) ==
    IF parts = <<>> THEN <<>>
    ELSE IF Len(parts) = 1 THEN parts[1]
    ELSE parts[1] \o sep \o Join(sep, Tail(parts))

\* What write_costs_to_file writes for one row, and for the whole matrix.
CostsLine(row) == Join(<<" ">>, [i \in DOMAIN row |-> PyStr(row[i])]) \o <<"\n">>
RECURSIVE CostsFileText(_)
CostsFileText(costs_in) ==
    IF costs_in = <<>> THEN <<>>
    ELSE CostsLine(Head(costs_in)) \o CostsFileText(Tail(costs_in))

\* for line in f: the text cut after each newline.
RECURSIVE FileLines(_)
FileLines(text) ==
    IF text = <<>> THEN <<>>
    ELSE IF \E k \in DOMAIN text : text[k] = "\n"
         THEN LET k == CHOOSE k \in DOMAIN text :
                          text[k] = "\n" /\ \A j \in 1 .. k - 1 : text[j] # "\n"
              IN <<SubSeq(text, 1, k)>> \o FileLines(SubSeq(text, k + 1, Len(text)))
         ELSE <<text>>

\* line.strip(): the line without the whitespace at its two ends.
PyStrip(line) ==
    LET inked == {k \in DOMAIN line : line[k] \notin Whitespace}
    IN IF inked = {} THEN <<>>
       ELSE SubSeq(line, CHOOSE k \in inked : \A j \in inked : k <= j,
                         CHOOSE k \in inked : \A j \in inked : j <= k)

\* s.split(): the words of s between runs of whitespace; word is the one being read.
RECURSIVE SplitWords(_, _)
SplitWords(s, word) ==
    IF s = <<>> THEN (IF word = <<>> THEN <<>> ELSE <<word>>)
    ELSE IF Head(s) \in Whitespace
         THEN (IF word = <<>> THEN <<>> ELSE <<word>>) \o SplitWords(Tail(s), <<>>)
         ELSE SplitWords(Tail(s), Append(word, Head(s)))
PySplit(s) == SplitWords(s, <<>>)

\* int(word): the value of an optional minus sign and decimal digits; anything
\* else raises ValueError.
IsDigits(word) ==
    word # <<>> /\ \A k \in DOMAIN word : \E d \in DOMAIN DigitChars : DigitChars[d] = word[k]
DigitValue(char) == CHOOSE d \in 0 .. 9 : DigitChars[d + 1] = char
RECURSIVE DigitsValue(_)
DigitsValue(word) ==
    IF word = <<>> THEN 0
    ELSE DigitsValue(SubSeq(word, 1, Len(word) - 1)) * 10 + DigitValue(word[Len(word)])
PyIntError(word) ==
    ~ IF word # <<>> /\ Head(word) = "-" THEN IsDigits(Tail(word)) ELSE IsDigits(word)
PyInt(word) ==
    IF Head(word) = "-" THEN 0 - DigitsValue(Tail(word)) ELSE DigitsValue(word)

\* The words of one line of the file as load_grid_costs reads them.
LineCharsEach(line) == [k \in DOMAIN PyStrip(line) |-> <<PyStrip(line)[k]>>]
LineWords(line) == PySplit(PyStrip(line))

\* load_grid_costs: one row of ints per line, or the ValueError of int().
LoadGridCostsError(text) ==
    IF \E i \in DOMAIN FileLines(text) :
          \E k \in DOMAIN LineWords(FileLines(text)[i]) :
              PyIntError(LineWords(FileLines(text)[i])[k])
    THEN "ValueError" ELSE "none"
LoadGridCostsResult(text) ==
    IF LoadGridCostsError(text) # "none" THEN None
    ELSE [i \in DOMAIN FileLines(text) |->
            [k \in DOMAIN LineWords(FileLines(text)[i]) |->
                PyInt(LineWords(FileLines(text)[i])[k])]]

\* generate_grid_costs(size, min_cost, max_cost): every matrix random.randint can
\* draw; random.randint raises ValueError on an empty range, range() of a size
\* below one is empty.
GenerateGridCostsError(size, min_cost, max_cost) ==
    IF size > 0 /\ min_cost > max_cost THEN "ValueError" ELSE "none"
GridCostsOf(size, min_cost, max_cost) ==
    IF GenerateGridCostsError(size, min_cost, max_cost) # "none" THEN {None}
    ELSE [1 .. size -> [1 .. size -> min_cost .. max_cost]]

\* The arguments given to main(): sizes up to MaxSize, the cost ranges below.
MaxSize == 2
CostRanges ==
    {<<-1, 1>>, <<0, 1>>, <<2, 3>>, <<4, 4>>, <<5, 5>>, <<6, 7>>, <<8, 8>>, <<9, 10>>,
     <<-10, -9>>, <<99, 100>>, <<2, 1>>}

\* generate_grid_costs(size, min_cost, max_cost) on the arguments of main().
GenerateGridCosts ==
    /\ last.op = "main"
    /\ \E ret \in GridCostsOf(last.size, last.min_cost, last.max_cost) :
        last' = [op |-> "generate_grid_costs",
                 err |-> GenerateGridCostsError(last.size, last.min_cost, last.max_cost),
                 ret |-> ret]
    /\ UNCHANGED <<gridVars, graphVars, engineVars, edits>>

\* write_costs_to_file(costs) on a matrix generate_grid_costs returned.
WriteCostsToFile ==
    /\ last.op = "generate_grid_costs"
    /\ last.err = "none"
    /\ last' = [op |-> "write_costs_to_file", costs |-> last.ret,
                file |-> CostsFileText(last.ret)]
    /\ UNCHANGED <<gridVars, graphVars, engineVars, edits>>

\* load_grid_costs(filename) on the file just written.
LoadGridCosts ==
    /\ last.op = "write_costs_to_file"
    /\ last' = [op |-> "load_grid_costs", costs |-> last.costs, file |-> last.file,
                err |-> LoadGridCostsError(last.file),
                ret |-> LoadGridCostsResult(last.file)]
    /\ UNCHANGED <<gridVars, graphVars, engineVars, edits>>

\* generate_costs.py main(size, min_cost, max_cost) is entered.
InitCostFile ==
    /\ NoGrid /\ NoGraph /\ NoEngine /\ edits = 0
    /\ \E size \in -1 .. MaxSize, range \in CostRanges :
        last = [op |-> "main", size |-> size, min_cost |-> range[1], max_cost |-> range[2]]

NextCostFile ==
    \/ GenerateGridCosts
    \/ WriteCostsToFile
    \/ LoadGridCosts

SpecCostFile == InitCostFile /\ [][NextCostFile]_vars

(***************************************************************************)
(* SpecGridCosts: Grid(width, height, customizable_cost=...) constructed   *)
(* while costs.txt holds one of the texts below.                           *)
(***************************************************************************)
\* Grid.__init__ on the text of costs.txt: the error it raises, the ValueError of
\* load_grid_costs included, and the cost of every square.
GridInitCosts(customizable_cost, text) ==
    IF customizable_cost THEN LoadGridCostsResult(text) ELSE <<>>
GridInitAcceptsLongRows(h, w, customizable_cost, text) ==
    IF ~customizable_cost THEN "none"
    ELSE IF LoadGridCostsError(text) # "none" THEN LoadGridCostsError(text)
    ELSE IF \/ Len(LoadGridCostsResult(text)) # h
            \/ \E i \in DOMAIN LoadGridCostsResult(text) : Len(LoadGridCostsResult(text)[i]) < w
         THEN "ValueError" ELSE "none"
GridInitError(h, w, customizable_cost, text) ==
    IF ~customizable_cost THEN "none"
    ELSE IF LoadGridCostsError(text) # "none" THEN LoadGridCostsError(text)
    ELSE IF \/ Len(LoadGridCostsResult(text)) # h
            \/ \E i \in DOMAIN LoadGridCostsResult(text) : Len(LoadGridCostsResult(text)[i]) # w
         THEN "ValueError" ELSE "none"
GridInitCost(h, w, customizable_cost, text) ==
    [cell \in CellsOf(h, w) |->
        IF customizable_cost
        THEN GridInitCosts(customizable_cost, text)[cell[1] + 1][cell[2] + 1]
        ELSE 1]

\* The texts of costs.txt: what write_costs_to_file writes for lists of up to
\* MaxSize rows of up to MaxSize costs each, rows of one list differing in length
\* or not, and four texts written by hand (a blank line, a last line without its
\* newline, a trailing space, a word that is no integer).
CostSamples == {1, 12}
CostRows == UNION {[1 .. n -> CostSamples] : n \in 0 .. MaxSize}
CostLists == UNION {[1 .. n -> CostRows] : n \in 0 .. MaxSize}
HandTexts ==
    {<<"\n">>, <<"7">>, <<"7", " ", "\n">>, <<"1", " ", "x", "\n">>}
CostTexts == {CostsFileText(rows) : rows \in CostLists} \cup HandTexts

\* Grid(width, height, customizable_cost=...): BaseGridScreen.__init__ makes the
\* one grid of its screen.  A constructor that raises leaves no grid.
GridInit ==
    /\ last.op = "costs.txt"
    /\ \E h \in 1 .. MaxSize, w \in 1 .. MaxSize, customizable_cost \in BOOLEAN :
        /\ IF GridInitError(h, w, customizable_cost, last.text) = "none"
           THEN /\ height' = h
                /\ width' = w
                /\ grid' = NewGrid(h, w)
                /\ cost' = GridInitCost(h, w, customizable_cost, last.text)
           ELSE UNCHANGED <<height, width, grid, cost>>
        /\ last' = [op |-> "Grid", width |-> w, height |-> h,
                    customizable_cost |-> customizable_cost,
                    text |-> last.text,
                    err |-> GridInitError(h, w, customizable_cost, last.text)]
    /\ UNCHANGED <<geom, graphVars, engineVars, edits>>

\* No grid yet.
GridAbsent ==
    /\ height = 0
    /\ width = 0
    /\ geom = DefaultGeom
    /\ grid = <<>>
    /\ cost = <<>>

InitGridCosts ==
    /\ GridAbsent /\ NoGraph /\ NoEngine /\ edits = 0
    /\ \E text \in CostTexts : last = [op |-> "costs.txt", text |-> text]

NextGridCosts == GridInit

SpecGridCosts == InitGridCosts /\ [][NextGridCosts]_vars

(***************************************************************************)
(* SpecGraphPlace: GraphScreen with its test graph; the user releases a    *)
(* mouse button over the graph area, or presses the Reset button.          *)
(***************************************************************************)
\* definitions/graph_constants.py.
GRAPH_AREA_MARGIN == 5
GRAPH_AREA_SIZE == SCREEN_HEIGHT - 2 * GRAPH_AREA_MARGIN
NODE_RADIUS == 15
SAFE_MIN_AREA == GRAPH_AREA_MARGIN + NODE_RADIUS
SAFE_MAX_AREA == GRAPH_AREA_MARGIN + GRAPH_AREA_SIZE - NODE_RADIUS

\* dx*dx + dy*dy between the node object and the point (x, y).
SquaredDistance(pos, node, x, y) ==
    (pos[node][1] - x) * (pos[node][1] - x) + (pos[node][2] - y) * (pos[node][2] - y)

\* GraphNode.is_point_inside and Graph.get_node: the first node of self.nodes that
\* has the point inside its circle, or 0 for None.
IsPointInside(pos, node, x, y) ==
    SquaredDistance(pos, node, x, y) <= NODE_RADIUS * NODE_RADIUS
GraphGetNode(ns, pos, x, y) ==
    LET hits == {i \in DOMAIN ns : IsPointInside(pos, ns[i], x, y)}
    IN IF hits = {} THEN 0 ELSE ns[CHOOSE i \in hits : \A j \in hits : i <= j]

\* Graph.can_place_node(x, y).
CanPlaceWhenNotInside(ns, pos, x, y) ==
    \A i \in DOMAIN ns : ~IsPointInside(pos, ns[i], x, y)
CanPlaceNode(ns, pos, x, y) ==
    \A i \in DOMAIN ns :
        ~(SquaredDistance(pos, ns[i], x, y) < (2 * NODE_RADIUS) * (2 * NODE_RADIUS))

\* The area test of the MOUSEBUTTONUP handler.
InSafeArea(x, y) ==
    /\ SAFE_MIN_AREA <= x /\ x <= SAFE_MAX_AREA
    /\ SAFE_MIN_AREA + 10 <= y /\ y <= SAFE_MAX_AREA

\* GraphScreen.__init__: the edges of the test graph in the order of its add_edge
\* calls; node1 is START and node5 is GOAL.
TestGraphEdges ==
    << NewEdge(1, 2), NewEdge(2, 3), NewEdge(3, 4), NewEdge(4, 5), NewEdge(5, 6),
       NewEdge(6, 7), NewEdge(7, 8), NewEdge(2, 8), NewEdge(3, 7), NewEdge(4, 6),
       NewEdge(1, 8), NewEdge(3, 6), NewEdge(4, 7) >>
TestGraphStates ==
    [id \in DOMAIN TestGraphPoints |->
        IF id = 1 THEN "START" ELSE IF id = 5 THEN "GOAL" ELSE "ACTIVATED"]

\* Where the mouse is when a button goes down or up: on node1 (150, 200), 29 and
\* 30 pixels to its right, 30 pixels and a little less away on a slant, 60 pixels
\* to its right, and left of the safe area.
ClickPoints ==
    { <<150, 200>>, <<179, 200>>, <<180, 200>>, <<168, 224>>, <<167, 224>>,
      <<210, 200>>, <<10, 200>> }

\* Node objects the user may create in one run, beyond those of the test graph.
MaxPlaced == 1

\* self.drag_start_node while self.dragging holds: the node that was under the
\* mouse when the left button went down (MOUSEBUTTONDOWN branch), or 0 when no
\* drag is under way.
DragStartNodes ==
    {0} \cup {GraphGetNode(nodes, npos, down[1], down[2]) : down \in ClickPoints}

\* The MOUSEBUTTONUP branch of GraphScreen.handle_event with the mouse at (x, y).
GraphScreenMouseUp ==
    \E up \in ClickPoints, button \in {1, 3}, drag \in DragStartNodes :
        LET x == up[1]
            y == up[2]
            node == GraphGetNode(nodes, npos, x, y)
            places == /\ button = 1 /\ InSafeArea(x, y) /\ CanPlaceNode(nodes, npos, x, y)
        IN /\ IF drag # 0
              THEN /\ nodes' = IF button = 3 /\ node # 0
                               THEN NodesAfterRemoveNode(nodes, drag) ELSE nodes
                   /\ edges' = IF button = 3 /\ node # 0
                               THEN EdgesAfterRemoveNode(nodes, edges, drag)
                               ELSE IF button = 1 /\ node # 0 /\ node # drag
                                    THEN EdgesAfterAddEdge(nodes, edges, drag, node)
                                    ELSE edges
                   /\ UNCHANGED <<npos, nstate>>
              ELSE IF places
                   THEN /\ Len(nstate) < Len(TestGraphPoints) + MaxPlaced
                        /\ nodes' = Append(nodes, NewNodeId)
                        /\ npos' = Append(npos, <<x, y>>)
                        /\ nstate' = Append(nstate, "ACTIVATED")
                        /\ UNCHANGED edges
                   ELSE UNCHANGED graphVars
           /\ last' = [op |-> "mouse_up", x |-> x, y |-> y, button |-> button,
                       drag |-> drag,
                       can_place |-> CanPlaceNode(nodes, npos, x, y),
                       placed |-> drag = 0 /\ places]
           /\ UNCHANGED <<gridVars, engineVars, edits>>

\* The Reset button (idx 7 of handle_button_click): self.graph = Graph().
GraphScreenReset ==
    /\ nodes' = <<>>
    /\ edges' = <<>>
    /\ last' = [op |-> "reset_graph"]
    /\ UNCHANGED <<gridVars, npos, nstate, engineVars, edits>>

InitGraphPlace ==
    /\ NoGrid /\ NoEngine /\ edits = 0 /\ last = NoCall
    /\ nodes = [id \in DOMAIN TestGraphPoints |-> id]
    /\ npos = TestGraphPoints
    /\ nstate = TestGraphStates
    /\ edges = TestGraphEdges

NextGraphPlace ==
    \/ GraphScreenMouseUp
    \/ GraphScreenReset

SpecGraphPlace == InitGraphPlace /\ [][NextGraphPlace]_vars

(***************************************************************************)
(* SpecHeapRun: the engines that keep a heap (Dijkstra, A*, Greedy) on the *)
(* weighted structures: the 4 x 4 grid loaded from WeightedMap with its    *)
(* two walls, or the graph LineEdges, START and GOAL on any two free       *)
(* nodes.  One engine is constructed, then stepped and reset in any order. *)
(***************************************************************************)
InitHeapRun ==
    /\ \/ /\ height = Len(WeightedMap)
          /\ width = Len(WeightedMap[1])
          /\ cost = CostOfMap(WeightedMap)
          /\ grid \in WalledGrids(Len(WeightedMap), Len(WeightedMap[1]), WeightedWalls)
          /\ geom = DefaultGeom
          /\ NoGraph
       \/ InitWeightedGraph
    /\ NoEngine
    /\ edits = 0
    /\ last = NoCall

NextHeapRun ==
    \/ (alg = "none" /\ nodes = <<>> /\ GridEngineNew /\ alg' \in HeapAlgs)
    \/ (alg = "none" /\ nodes # <<>> /\ GraphEngineNew /\ alg' \in HeapAlgs)
    \/ EngineReset
    \/ EngineStep

SpecHeapRun == InitHeapRun /\ [][NextHeapRun]_vars

(***************************************************************************)
(* SpecTrace: Grid.get_neighbors called on the cells of a grid of one of   *)
(* the shapes TraceShapes, prepared with START, GOAL and any of the walls  *)
(* TraceWalls, and then one engine of any class built on the grid and run  *)
(* by the screen until step() returns false.                               *)
(***************************************************************************)
TraceShapes == {<<1, 2>>, <<2, 3>>, <<3, 3>>}
TraceWalls == {<<0, 0>>, <<1, 2>>}

InitTrace ==
    /\ \E hw \in TraceShapes :
        /\ height = hw[1]
        /\ width = hw[2]
        /\ grid \in UNION {WalledGrids(hw[1], hw[2], walls) :
                              walls \in SUBSET (TraceWalls \cap CellsOf(hw[1], hw[2]))}
        /\ cost = NewCost(hw[1], hw[2])
    /\ geom = DefaultGeom
    /\ NoGraph
    /\ NoEngine
    /\ edits = 0
    /\ last = NoCall

NextTrace ==
    \/ (alg = "none" /\ GetNeighbors)
    \/ (alg = "none" /\ GridEngineNew)
    \/ UpdateAlgorithm

SpecTrace == InitTrace /\ [][NextTrace]_vars

(***************************************************************************)
(* SpecShortest: BFS run by the screen until step() returns false, on a    *)
(* grid of one of the shapes ShortestShapes with any layout of walls, or   *)
(* on a graph of four nodes joined by any of the edges NodePairs, with at  *)
(* most one START and at most one GOAL, as the screens leave them.         *)
(***************************************************************************)
ShortestShapes == {<<1, 3>>, <<2, 3>>, <<3, 3>>}

\* Positions given to Graph.add_node, the corners of a rectangle of 30 by 40 with
\* diagonals of 50, and the pairs Graph.add_edge may have joined.
ShortestPoints == << <<100, 100>>, <<130, 100>>, <<130, 140>>, <<100, 140>> >>
NodePairs == << <<1, 2>>, <<1, 3>>, <<1, 4>>, <<2, 3>>, <<2, 4>>, <<3, 4>> >>

\* Graph.edges after add_edge on the chosen pairs, in the order of NodePairs.
RECURSIVE EdgesAmong(_, _)
EdgesAmong(chosen, i) ==
    IF i > Len(NodePairs) THEN <<>>
    ELSE (IF i \in chosen THEN <<NewEdge(NodePairs[i][1], NodePairs[i][2])>> ELSE <<>>)
            \o EdgesAmong(chosen, i + 1)

InitShortest ==
    /\ \/ /\ \E hw \in ShortestShapes :
                /\ height = hw[1]
                /\ width = hw[2]
                /\ grid \in PreparedGrids(hw[1], hw[2])
                /\ cost = NewCost(hw[1], hw[2])
          /\ geom = DefaultGeom
          /\ NoGraph
       \/ /\ NoGrid
          /\ nodes = <<1, 2, 3, 4>>
          /\ npos = ShortestPoints
          /\ nstate \in {st \in [1 .. 4 -> {"ACTIVATED", "START", "GOAL"}] :
                            /\ Cardinality({n \in 1 .. 4 : st[n] = "START"}) <= 1
                            /\ Cardinality({n \in 1 .. 4 : st[n] = "GOAL"}) <= 1}
          /\ edges \in {EdgesAmong(chosen, 1) : chosen \in SUBSET DOMAIN NodePairs}
    /\ NoEngine
    /\ edits = 0
    /\ last = NoCall

NextShortest ==
    \/ (alg = "none" /\ nodes = <<>> /\ GridEngineNew /\ alg' = "BFS")
    \/ (alg = "none" /\ nodes # <<>> /\ GraphEngineNew /\ alg' = "BFS")
    \/ UpdateAlgorithm

SpecShortest == InitShortest /\ [][NextShortest]_vars

(***************************************************************************)
(* SpecDijkstraGrid: Dijkstra run by the screen until step() returns false *)
(* on a weighted grid with any layout of walls: a 2 x 3 grid with START in *)
(* the first column, GOAL in the last and every cost map over CostChoices  *)
(* (the squares no path enters, START and the walls, cost 1), or the 3 x 3 *)
(* grid loaded from ZeroMap with START and GOAL anywhere.                  *)
(***************************************************************************)
\* Costs a costs.txt may hold for a square; 0 makes a square free to enter.
CostChoices == {0, 1, 3}
ZeroMap == << <<1, 0, 3>>, <<3, 3, 0>>, <<0, 1, 1>> >>

\* The prepared grids with a START and a GOAL.
SearchableGrids(h, w) ==
    {g \in PreparedGrids(h, w) :
        /\ \E cell \in CellsOf(h, w) : g[cell] = "START"
        /\ \E cell \in CellsOf(h, w) : g[cell] = "GOAL"}

InitDijkstraGrid ==
    /\ \/ /\ height = 2
          /\ width = 3
          /\ grid \in {g \in SearchableGrids(2, 3) :
                          /\ \E row \in 0 .. 1 : g[<<row, 0>>] = "START"
                          /\ \E row \in 0 .. 1 : g[<<row, 2>>] = "GOAL"}
          /\ cost \in {c \in [CellsOf(2, 3) -> CostChoices] :
                          \A cell \in CellsOf(2, 3) :
                              grid[cell] \in {"START", "DEACTIVATED"} => c[cell] = 1}
       \/ /\ height = Len(ZeroMap)
          /\ width = Len(ZeroMap[1])
          /\ cost = CostOfMap(ZeroMap)
          /\ grid \in SearchableGrids(Len(ZeroMap), Len(ZeroMap[1]))
    /\ geom = DefaultGeom
    /\ NoGraph
    /\ NoEngine
    /\ edits = 0
    /\ last = NoCall

NextDijkstraGrid ==
    \/ (alg = "none" /\ GridEngineNew /\ alg' = "Dijkstra")
    \/ UpdateAlgorithm

SpecDijkstraGrid == InitDijkstraGrid /\ [][NextDijkstraGrid]_vars

(***************************************************************************)
(* SpecDijkstraGraph: Dijkstra run by the screen until step() returns      *)
(* false on a graph of four nodes, one START and one GOAL, joined by any   *)
(* of the edges NodePairs, each edge built with a cost of EdgeCosts.       *)
(***************************************************************************)
EdgeCosts == {1, 3}

\* Edge(node1, node2, cost).
CostEdge(node1, node2, c) == [NewEdge(node1, node2) EXCEPT !.cost = c]

\* Graph.edges holding an edge for each pair that was given a cost, in the order
\* of NodePairs; 0 stands for a pair left without an edge.
RECURSIVE CostEdgesAmong(_, _)
CostEdgesAmong(given, i) ==
    IF i > Len(NodePairs) THEN <<>>
    ELSE (IF given[i] # 0
          THEN <<CostEdge(NodePairs[i][1], NodePairs[i][2], given[i])>> ELSE <<>>)
            \o CostEdgesAmong(given, i + 1)

InitDijkstraGraph ==
    /\ NoGrid
    /\ nodes = <<1, 2, 3, 4>>
    /\ npos = ShortestPoints
    /\ nstate \in {[[[n \in 1 .. 4 |-> "ACTIVATED"] EXCEPT ![sg[1]] = "START"]
                        EXCEPT ![sg[2]] = "GOAL"] :
                        sg \in {p \in (1 .. 4) \X (1 .. 4) : p[1] # p[2]}}
    /\ edges \in {CostEdgesAmong(given, 1) :
                    given \in [DOMAIN NodePairs -> EdgeCosts \cup {0}]}
    /\ NoEngine
    /\ edits = 0
    /\ last = NoCall

NextDijkstraGraph ==
    \/ (alg = "none" /\ GraphEngineNew /\ alg' = "Dijkstra")
    \/ UpdateAlgorithm

SpecDijkstraGraph == InitDijkstraGraph /\ [][NextDijkstraGraph]_vars

(***************************************************************************)
(* SpecSupplied: an engine of any class constructed on a prepared grid or  *)
(* graph with any of the callables NeighborFunctions as get_neighbors, and *)
(* stepped.  The callable the engine was given is kept with the last call. *)
(***************************************************************************)
\* BFSAlgorithm(structure, f), DFSAlgorithm(structure, f), ...: __init__ stores the
\* callable and calls reset().
EngineNewWith ==
    \E a \in Algs, f \in NeighborFunctions :
        LET k == IF nodes = <<>> THEN "grid" ELSE "graph"
        IN /\ alg = "none"
           /\ structure' = k
           /\ alg' = a
           /\ Becomes(k, EngineAfterReset(k, a, nodes, IF k = "grid" THEN grid ELSE nstate, edges))
           /\ last' = [op |-> "new", alg |-> a, get_neighbors |-> f]
           /\ UNCHANGED edits

\* algorithm.step() of that engine.
EngineStepWith ==
    /\ alg # "none"
    /\ Becomes(structure, EngineAfterStepWith(structure, alg, Engine, last.get_neighbors))
    /\ last' = [op |-> "step", ret |-> StepReturn(Engine),
                get_neighbors |-> last.get_neighbors]
    /\ UNCHANGED <<structure, alg, edits>>

InitSupplied == InitEngineRun

NextSupplied == EngineNewWith \/ EngineStepWith

SpecSupplied == InitSupplied /\ [][NextSupplied]_vars

(***************************************************************************)
(* SpecGridScreen: BaseGridScreen (screens/grid_2d.py), the screen of the  *)
(* 2D grid and of the weighted grid.  The flags of local_app_state and     *)
(* self.grid_reset_state are carried in last, next to the name of the      *)
(* handler that ran and the engine calls update_algorithm made in it.  The *)
(* user's events (mouse button down and up, Ctrl+R) and the frames of      *)
(* run(), with the mouse anywhere and any of its buttons held, come in any *)
(* order.  The Back button and the Escape and Ctrl+Q keys leave the screen *)
(* and touch none of this.  s.edits counts the user's calls of             *)
(* Grid.change_state.                                                      *)
(***************************************************************************)
\* The size given to Grid(size, size) by the screen; the grid is square.
ScreenSizes == {2}

\* self.buttons: Set Start, Set Goal, the five algorithms, Reset, Generate Maze.
Buttons == 0 .. 8
NoButton == -1

\* The engine class an algorithm button constructs (idx 2 .. 6).
ButtonAlgorithm(idx) ==
    CASE idx = 2 -> "BFS"
      [] idx = 3 -> "DFS"
      [] idx = 4 -> "Dijkstra"
      [] idx = 5 -> "AStar"
      [] idx = 6 -> "Greedy"

\* The screen as the handlers see it: the flags, the saved states, the engine
\* self.algorithm with the grid as its structure's states.
GridScreen ==
    [running_algorithm |-> last.running_algorithm,
     runned_algorithm |-> last.runned_algorithm,
     grid_full_reset |-> last.grid_full_reset,
     set_start_mode |-> last.set_start_mode,
     set_goal_mode |-> last.set_goal_mode,
     block_action |-> last.block_action,
     grid_reset_state |-> last.grid_reset_state,
     alg |-> alg,
     calls |-> <<>>,
     edits |-> edits,
     e |-> [Engine EXCEPT !.st = grid]]

\* A _reset_button() that always makes every square ACTIVATED.
ResetButtonFull(s) ==
    [s EXCEPT !.runned_algorithm = FALSE,
              !.grid_full_reset = TRUE,
              !.e.st = NewGrid(height, width)]

\* _reset_button(): the saved states are put back square by square, or, when the
\* grid is already in its saved state, every square becomes ACTIVATED.
ResetButton(s) ==
    [s EXCEPT !.runned_algorithm = FALSE,
              !.grid_full_reset = TRUE,
              !.e.st = IF s.grid_full_reset = FALSE
                       THEN s.grid_reset_state
                       ELSE NewGrid(height, width)]

\* _set_button_mode(pos_x, pos_y, state_enum).
SetButtonMode(s, cell, state_enum) ==
    [s EXCEPT !.e.st = GridAfterChangeState(@, cell[1], cell[2], state_enum),
              !.edits = @ + 1,
              !.set_start_mode = FALSE,
              !.set_goal_mode = FALSE,
              !.block_action = TRUE]

\* The algorithm branch of handle_button_click: nothing without a START and a
\* GOAL; otherwise the grid is reset if a search has run, its states are saved
\* and the engine is constructed.
StartAlgorithm(s, a) ==
    IF GridGetStart(s.e.st) = None \/ GridGetGoal(s.e.st) = None THEN s
    ELSE LET r == IF s.runned_algorithm THEN ResetButton(s) ELSE s
         IN [r EXCEPT !.grid_reset_state = IF ~r.runned_algorithm THEN r.e.st ELSE @,
                      !.runned_algorithm = TRUE,
                      !.grid_full_reset = FALSE,
                      !.running_algorithm = TRUE,
                      !.alg = a,
                      !.e = EngineAfterReset("grid", a, nodes, r.e.st, edges)]

\* The maze button: _reset_button(), then generate_maze_prim(self.grid) with any
\* of its random choices.
MazeButton(s) ==
    LET r == ResetButton(s)
    IN {[r EXCEPT !.e.st = g] :
            g \in UNION {GridsAfterMaze(r.e.st, seed[1], seed[2]) :
                            seed \in EvenBelow(height) \X EvenBelow(width)}}

\* handle_button_click(idx): the screens it may leave.
HandleButtonClick(s, idx) ==
    LET c == [s EXCEPT !.set_start_mode = FALSE,
                       !.set_goal_mode = FALSE,
                       !.block_action = TRUE]
    IN CASE idx = 0 ->
              {[(IF c.runned_algorithm THEN ResetButton(c) ELSE c)
                    EXCEPT !.set_start_mode = TRUE, !.set_goal_mode = FALSE]}
         [] idx = 1 ->
              {[(IF c.runned_algorithm THEN ResetButton(c) ELSE c)
                    EXCEPT !.set_goal_mode = TRUE, !.set_start_mode = FALSE]}
         [] idx = 7 -> {ResetButton(c)}
         [] idx = 8 -> MazeButton(c)
         [] OTHER -> {StartAlgorithm(c, ButtonAlgorithm(idx))}

\* handle_event: block_action swallows every event and is cleared by a
\* MOUSEBUTTONUP.
EventBlocked(s) == s.block_action

\* The guard left out: clicks and Ctrl+R handled during a search too.
EventHandledAlways(s) == TRUE

\* handle_event: mouse clicks and Ctrl+R are handled when no algorithm is running.
EventHandled(s) == ~s.running_algorithm

\* handle_event(MOUSEBUTTONDOWN) with the mouse on the square at (a cell, or None)
\* and on the button idx (or NoButton).
HandleMouseButtonDown(s, button, at, idx) ==
    IF EventBlocked(s) \/ ~EventHandled(s) THEN {s}
    ELSE LET placed ==
                 IF button = 1 /\ at # None /\ idx = NoButton
                 THEN IF s.set_start_mode THEN SetButtonMode(s, at, "START")
                      ELSE IF s.set_goal_mode THEN SetButtonMode(s, at, "GOAL")
                      ELSE s
                 ELSE s
         IN IF idx = NoButton THEN {placed} ELSE HandleButtonClick(placed, idx)

\* handle_event(MOUSEBUTTONUP).
HandleMouseButtonUp(s) == [s EXCEPT !.block_action = FALSE]

\* handle_event(KEYDOWN) for Ctrl+R.
HandleKeyReset(s) ==
    IF EventBlocked(s) \/ ~EventHandled(s) THEN s ELSE ResetButton(s)

\* update_algorithm(): one step(); when it returns false the flag is cleared and
\* highlight_path() is called.
ScreenUpdateAlgorithm(s) ==
    LET stepped == EngineAfterStep("grid", s.alg, s.e)
    IN IF StepReturn(s.e)
       THEN [s EXCEPT !.e = stepped, !.calls = <<"step">>]
       ELSE [s EXCEPT !.e = EngineAfterHighlightPath("grid", stepped, nodes),
                      !.running_algorithm = FALSE,
                      !.calls = <<"step", "highlight_path">>]

\* handle_mouse_drag() with the mouse on the square at (or None) and the left and
\* right buttons held or not: the square becomes a wall or free, after a reset if
\* a search has run.
HandleMouseDrag(s, at, left, right) ==
    LET r == IF s.runned_algorithm THEN ResetButton(s) ELSE s
    IN IF at # None /\ left /\ ~s.block_action
       THEN [r EXCEPT !.e.st = GridAfterChangeState(@, at[1], at[2], "DEACTIVATED"),
                      !.edits = @ + 1]
       ELSE IF at # None /\ right /\ ~s.block_action
            THEN [r EXCEPT !.e.st = GridAfterChangeState(@, at[1], at[2], "ACTIVATED"),
                           !.edits = @ + 1]
            ELSE s

\* run(): update_algorithm() while running, then the drag handler when not.
ScreenRun(s, at, left, right) ==
    LET u == IF s.running_algorithm THEN ScreenUpdateAlgorithm(s) ELSE s
    IN IF ~u.running_algorithm THEN HandleMouseDrag(u, at, left, right) ELSE u

\* The assignments a handler leaves behind, in a run in which the user's clicks
\* and drags make at most MaxEdits calls of Grid.change_state.
ScreenBecomes(s, op) ==
    /\ s.edits <= MaxEdits
    /\ edits' = s.edits
    /\ Becomes("grid", s.e)
    /\ alg' = s.alg
    /\ structure' = IF s.alg = "none" THEN "none" ELSE "grid"
    /\ last' = [op |-> op, calls |-> s.calls,
                running_algorithm |-> s.running_algorithm,
                runned_algorithm |-> s.runned_algorithm,
                grid_full_reset |-> s.grid_full_reset,
                set_start_mode |-> s.set_start_mode,
                set_goal_mode |-> s.set_goal_mode,
                block_action |-> s.block_action,
                grid_reset_state |-> s.grid_reset_state]

\* Where the mouse is: on a square of the grid, on a button of the panel beside
\* the grid, or on neither.
MouseTargets ==
    {<<at, NoButton>> : at \in Cells \cup {None}} \cup {<<None, idx>> : idx \in Buttons}

GridScreenMouseButtonDown ==
    \E button \in {1, 3}, on \in MouseTargets :
        \E s \in HandleMouseButtonDown(GridScreen, button, on[1], on[2]) :
            ScreenBecomes(s, "mouse_down")

GridScreenMouseButtonUp ==
    ScreenBecomes(HandleMouseButtonUp(GridScreen), "mouse_up")

GridScreenKeyReset ==
    ScreenBecomes(HandleKeyReset(GridScreen), "key_reset")

GridScreenRun ==
    \E at \in Cells \cup {None}, left \in BOOLEAN, right \in BOOLEAN :
        ScreenBecomes(ScreenRun(GridScreen, at, left, right), "run")

\* BaseGridScreen.__init__ with Grid2DAppState.__init__'s flags.  block_action is
\* not among the attributes Grid2DAppState creates: it is held to have been given
\* either value before the first event.
InitGridScreen ==
    /\ \E size \in ScreenSizes :
        /\ height = size
        /\ width = size
        /\ grid = NewGrid(size, size)
        /\ cost = NewCost(size, size)
        /\ geom = ScreenGeom(size)
    /\ NoGraph
    /\ NoEngine
    /\ edits = 0
    /\ \E block \in BOOLEAN :
        last = [op |-> "init", calls |-> <<>>,
                running_algorithm |-> FALSE,
                runned_algorithm |-> FALSE,
                grid_full_reset |-> TRUE,
                set_start_mode |-> FALSE,
                set_goal_mode |-> FALSE,
                block_action |-> block,
                grid_reset_state |-> <<>>]

NextGridScreen ==
    \/ GridScreenMouseButtonDown
    \/ GridScreenMouseButtonUp
    \/ GridScreenKeyReset
    \/ GridScreenRun

SpecGridScreen == InitGridScreen /\ [][NextGridScreen]_vars

(***************************************************************************)
(* SpecGraphScreen: GraphScreen (screens/graph_screen.py) with its test    *)
(* graph.  The flags of local_app_state that the screen reads, and         *)
(* self.dragging and self.drag_start_node, are carried in last, next to    *)
(* the name of the handler that ran and the engine calls update_algorithm  *)
(* made in it.  Mouse buttons go down and up and run() is called with the  *)
(* mouse at any of GraphMousePoints or on a button of the panel, in any    *)
(* order; s.edits counts the changes the user has made to the graph.  The  *)
(* buttons pressed are those of GraphButtons, with BFS for the algorithm,  *)
(* and Reset is pressed between searches (self.graph becomes a new object; *)
(* an engine still running keeps the old one).                             *)
(***************************************************************************)
\* Set Start, Set Goal, BFS, Reset.
GraphButtons == {0, 1, 2, 7}

\* Where the mouse is: on node1, node2 and node3 of the test graph, halfway along
\* the edge from node1 to node2, and on free ground inside the safe area.
GraphMousePoints ==
    { <<150, 200>>, <<300, 150>>, <<450, 200>>, <<225, 175>>, <<100, 500>> }

\* is_mouse_near_edge with its threshold of 8: the distance from the mouse to the
\* segment between the two nodes is at most the threshold.  With t the projection
\* of the mouse on the segment times its squared length (norm), the nearest point
\* is the first end for t <= 0, the second for t >= norm, and else the foot of the
\* perpendicular, at distance |across| / sqrt(norm); the first test on across
\* keeps its square within 32-bit integers.
EdgeThreshold == 8
IsMouseNearEdge(pos, edge, x, y) ==
    LET px == pos[edge.node2][1] - pos[edge.node1][1]
        py == pos[edge.node2][2] - pos[edge.node1][2]
        norm == px * px + py * py
        t == (x - pos[edge.node1][1]) * px + (y - pos[edge.node1][2]) * py
        across == Abs((x - pos[edge.node1][1]) * py - (y - pos[edge.node1][2]) * px)
        within == EdgeThreshold * EdgeThreshold
    IN IF norm = 0 \/ t <= 0 THEN SquaredDistance(pos, edge.node1, x, y) <= within
       ELSE IF t >= norm THEN SquaredDistance(pos, edge.node2, x, y) <= within
       ELSE /\ across <= EdgeThreshold * (Abs(px) + Abs(py))
            /\ across * across <= within * norm

\* get_edge_under_mouse: the position in self.edges of the first edge the mouse
\* is near, or 0 for None.
GetEdgeUnderMouse(es, pos, x, y) ==
    LET hits == {i \in DOMAIN es : IsMouseNearEdge(pos, es[i], x, y)}
    IN IF hits = {} THEN 0 ELSE CHOOSE i \in hits : \A j \in hits : i <= j

\* The screen as the handlers see it; e is self.algorithm with the states and the
\* edges of self.graph.
GraphScreen ==
    [running_algorithm |-> last.running_algorithm,
     set_start_mode |-> last.set_start_mode,
     set_goal_mode |-> last.set_goal_mode,
     dragging |-> last.dragging,
     drag_start_node |-> last.drag_start_node,
     nodes |-> nodes,
     npos |-> npos,
     alg |-> alg,
     calls |-> <<>>,
     edits |-> edits,
     e |-> [Engine EXCEPT !.st = nstate, !.es = edges]]

\* handle_button_click(idx).
GraphHandleButtonClick(s, idx) ==
    LET c == [s EXCEPT !.set_start_mode = FALSE, !.set_goal_mode = FALSE]
    IN CASE idx = 0 -> [c EXCEPT !.set_start_mode = ~c.set_start_mode,
                                 !.set_goal_mode = FALSE]
         [] idx = 1 -> [c EXCEPT !.set_goal_mode = ~c.set_goal_mode,
                                 !.set_start_mode = FALSE]
         [] idx = 7 -> [c EXCEPT !.nodes = <<>>, !.e.es = <<>>]
         [] OTHER ->
              IF \/ StructGetStart("graph", c.nodes, c.e.st) = NoNode("graph")
                 \/ StructGetGoal("graph", c.nodes, c.e.st) = NoNode("graph")
              THEN c
              ELSE [c EXCEPT !.running_algorithm = TRUE,
                             !.alg = ButtonAlgorithm(idx),
                             !.e = EngineAfterReset("graph", ButtonAlgorithm(idx),
                                                    c.nodes, c.e.st, c.e.es)]

\* The node states after a left click on node in set-start or set-goal mode: the
\* nodes of the graph that hold the tag become ACTIVATED, then node takes it.
TagMoved(ns, st, node, tag) ==
    [[n \in DOMAIN st |-> IF InNodes(ns, n) /\ st[n] = tag THEN "ACTIVATED" ELSE st[n]]
        EXCEPT ![node] = tag]

\* The MOUSEBUTTONDOWN branch of handle_event with the mouse at (x, y), or on the
\* button idx of the panel, where no node lies.
GraphHandleMouseButtonDown(s, button, x, y, idx) ==
    LET c == IF idx = NoButton THEN s ELSE GraphHandleButtonClick(s, idx)
        node == IF idx = NoButton THEN GraphGetNode(c.nodes, c.npos, x, y) ELSE 0
        tagged == IF button = 1 /\ c.set_start_mode
                  THEN [c EXCEPT !.e.st = TagMoved(c.nodes, @, node, "START"),
                                 !.edits = @ + 1]
                  ELSE IF button = 1 /\ c.set_goal_mode
                       THEN [c EXCEPT !.e.st = TagMoved(c.nodes, @, node, "GOAL"),
                                      !.edits = @ + 1]
                       ELSE c
    IN IF node = 0 THEN c
       ELSE [tagged EXCEPT !.set_start_mode = FALSE,
                           !.set_goal_mode = FALSE,
                           !.drag_start_node = IF button = 1 THEN node ELSE @,
                           !.dragging = IF button = 1 THEN TRUE ELSE @]

\* The MOUSEBUTTONUP branch of handle_event with the mouse at (x, y): the end of
\* a drag removes the node it began on or joins it to the node under the mouse;
\* without a drag a left release on free ground places a node.
GraphHandleMouseButtonUp(s, button, x, y) ==
    LET node == GraphGetNode(s.nodes, s.npos, x, y)
        drag == s.drag_start_node
        dropped == [s EXCEPT !.drag_start_node = 0, !.dragging = FALSE]
    IN IF s.dragging /\ drag # 0
       THEN IF button = 3 /\ node # 0
            THEN [dropped EXCEPT !.nodes = NodesAfterRemoveNode(s.nodes, drag),
                                 !.e.es = EdgesAfterRemoveNode(s.nodes, @, drag),
                                 !.edits = @ + 1]
            ELSE IF button = 1 /\ node # 0 /\ node # drag
                 THEN [dropped EXCEPT !.e.es = EdgesAfterAddEdge(s.nodes, @, drag, node),
                                      !.edits = @ + 1]
                 ELSE dropped
       ELSE IF button = 1 /\ InSafeArea(x, y) /\ CanPlaceNode(s.nodes, s.npos, x, y)
            THEN [s EXCEPT !.nodes = Append(@, Len(s.e.st) + 1),
                           !.npos = Append(@, <<x, y>>),
                           !.e.st = Append(@, "ACTIVATED"),
                           !.edits = @ + 1]
            ELSE s

\* handle_mouse_drag() with the mouse at (x, y): while the right button is held
\* the node under the mouse is removed, then the edge under it.
GraphHandleMouseDrag(s, right, x, y) ==
    LET node == GraphGetNode(s.nodes, s.npos, x, y)
        r == IF node # 0
             THEN [s EXCEPT !.nodes = NodesAfterRemoveNode(s.nodes, node),
                            !.e.es = EdgesAfterRemoveNode(s.nodes, @, node)]
             ELSE s
        edge == GetEdgeUnderMouse(r.e.es, r.npos, x, y)
    IN IF ~right THEN s
       ELSE IF edge # 0
            THEN [r EXCEPT !.e.es = EdgesAfterRemoveEdge(@, @[edge].node1, @[edge].node2),
                           !.edits = @ + 1]
            ELSE IF node # 0 THEN [r EXCEPT !.edits = @ + 1] ELSE s

\* update_algorithm(): one step(); when it returns false the flag is cleared and
\* highlight_path() is called.
GraphUpdateAlgorithm(s) ==
    LET stepped == EngineAfterStep("graph", s.alg, s.e)
    IN IF StepReturn(s.e)
       THEN [s EXCEPT !.e = stepped, !.calls = <<"step">>]
       ELSE [s EXCEPT !.e = EngineAfterHighlightPath("graph", stepped, s.nodes),
                      !.running_algorithm = FALSE,
                      !.calls = <<"step", "highlight_path">>]

\* run(): the drag handler, then update_algorithm() while running.
GraphScreenRunning(s) == s.running_algorithm
GraphRun(s, right, x, y) ==
    LET d == GraphHandleMouseDrag(s, right, x, y)
    IN IF GraphScreenRunning(d) THEN GraphUpdateAlgorithm(d) ELSE d

\* The assignments a handler leaves behind, in a run in which the user changes
\* the graph fewer than MaxEdits times.
GraphScreenBecomes(s, op) ==
    /\ s.edits < MaxEdits
    /\ edits' = s.edits
    /\ nodes' = s.nodes
    /\ npos' = s.npos
    /\ nstate' = s.e.st
    /\ edges' = s.e.es
    /\ alg' = s.alg
    /\ structure' = IF s.alg = "none" THEN "none" ELSE "graph"
    /\ frontier' = s.e.frontier
    /\ visited' = s.e.visited
    /\ parents' = s.e.parents
    /\ costs' = s.e.costs
    /\ counter' = s.e.counter
    /\ found' = s.e.found
    /\ path' = s.e.path
    /\ egoal' = s.e.egoal
    /\ last' = [op |-> op, calls |-> s.calls,
                running_algorithm |-> s.running_algorithm,
                set_start_mode |-> s.set_start_mode,
                set_goal_mode |-> s.set_goal_mode,
                dragging |-> s.dragging,
                drag_start_node |-> s.drag_start_node]
    /\ UNCHANGED gridVars

GraphScreenMouseButtonDown ==
    \E button \in {1, 3} :
        \/ \E at \in GraphMousePoints :
              GraphScreenBecomes(
                  GraphHandleMouseButtonDown(GraphScreen, button, at[1], at[2], NoButton),
                  "mouse_down")
        \/ \E idx \in GraphButtons :
              /\ idx = 7 => ~last.running_algorithm
              /\ GraphScreenBecomes(
                     GraphHandleMouseButtonDown(GraphScreen, button, 0, 0, idx),
                     "mouse_down")

GraphScreenMouseButtonUp ==
    \E button \in {1, 3}, at \in GraphMousePoints :
        GraphScreenBecomes(GraphHandleMouseButtonUp(GraphScreen, button, at[1], at[2]),
                           "mouse_up")

GraphScreenRun ==
    \E right \in BOOLEAN, at \in GraphMousePoints :
        GraphScreenBecomes(GraphRun(GraphScreen, right, at[1], at[2]), "run")

\* GraphScreen.__init__ with GraphAppState.__init__'s flags.
InitGraphScreen ==
    /\ NoGrid /\ NoEngine /\ edits = 0
    /\ nodes = [id \in DOMAIN TestGraphPoints |-> id]
    /\ npos = TestGraphPoints
    /\ nstate = TestGraphStates
    /\ edges = TestGraphEdges
    /\ last = [op |-> "init", calls |-> <<>>,
               running_algorithm |-> FALSE,
               set_start_mode |-> FALSE,
               set_goal_mode |-> FALSE,
               dragging |-> FALSE,
               drag_start_node |-> 0]

NextGraphScreen ==
    \/ GraphScreenMouseButtonDown
    \/ GraphScreenMouseButtonUp
    \/ GraphScreenRun

SpecGraphScreen == InitGraphScreen /\ [][NextGraphScreen]_vars

(***************************************************************************)
(* SpecPaint: one engine of any class constructed on a structure prepared  *)
(* as for SpecEngineRun, whose nodes are ACTIVATED, DEACTIVATED, START or  *)
(* GOAL, and then stepped and highlighted in any order, with no reset()    *)
(* after the first step has painted.                                       *)
(***************************************************************************)
NextPaint ==
    \/ (alg = "none" /\ nodes = <<>> /\ GridEngineNew)
    \/ (alg = "none" /\ nodes # <<>> /\ GraphEngineNew)
    \/ EngineStep
    \/ EngineHighlightPath

SpecPaint == InitEngineRun /\ [][NextPaint]_vars

(***************************************************************************)
(* SpecTermination: one engine of any class built on a structure prepared  *)
(* as for SpecEngineRun and run by the screen.  The structure is touched   *)
(* by nothing but the engine.  The main loop calls run() in every frame,   *)
(* and run() calls update_algorithm while running_algorithm is set: the    *)
(* call is weakly fair.                                                    *)
(***************************************************************************)
\* What a call of update_algorithm leaves in last, which nothing else writes: the
\* steps that write it are the calls, and one is possible exactly while
\* running_algorithm is set.
UpdateAlgorithmCalled ==
    /\ alg # "none"
    /\ RunningAlgorithm
    /\ last' = [op |-> "update_algorithm", ret |-> StepReturn(Engine),
                calls |-> StepCalls + 1]

NextTermination ==
    \/ (alg = "none" /\ nodes = <<>> /\ GridEngineNew)
    \/ (alg = "none" /\ nodes # <<>> /\ GraphEngineNew)
    \/ UpdateAlgorithm

SpecTermination ==
    InitEngineRun /\ [][NextTermination]_vars /\ WF_last(UpdateAlgorithmCalled)

(***************************************************************************)
(* SpecMazeLoop: generate_maze_prim turn by turn, on a grid that has been  *)
(* used.  The walls list is carried in last while the function runs: the   *)
(* first two phases and the seeding of the list are one step, each turn of *)
(* the while loop is one step with any index random.randrange may return,  *)
(* and the return is a step.  The loop runs with nothing to wait for: its  *)
(* turns and the return are weakly fair.                                   *)
(***************************************************************************)
LoopShapes == {<<1, 1>>, <<1, 4>>, <<2, 2>>, <<2, 5>>, <<3, 3>>, <<4, 4>>, <<3, 5>>, <<5, 4>>}

\* Tags a used grid shows on its cells, besides one START and one GOAL.
UsedTags == {"ACTIVATED", "DEACTIVATED", "VISITED", "FRONTIER", "PATH"}

\* Used grids of a shape: one tag on the cells whose row and column are both odd
\* or both even, another on the rest, a START on the first cell or nowhere, a GOAL
\* on the last cell or nowhere.
UsedGrids(h, w) ==
    {[cell \in CellsOf(h, w) |->
        IF endpoints[1] /\ cell = <<0, 0>> THEN "START"
        ELSE IF endpoints[2] /\ cell = <<h - 1, w - 1>> THEN "GOAL"
        ELSE IF (cell[1] + cell[2]) % 2 = 0 THEN tags[1] ELSE tags[2]] :
            tags \in UsedTags \X UsedTags, endpoints \in BOOLEAN \X BOOLEAN}

InitMazeLoop ==
    /\ \E hw \in LoopShapes :
        /\ height = hw[1]
        /\ width = hw[2]
        /\ grid \in UsedGrids(hw[1], hw[2])
        /\ cost = NewCost(hw[1], hw[2])
    /\ geom = DefaultGeom
    /\ NoGraph
    /\ NoEngine
    /\ edits = 0
    /\ last = NoCall

\* The call, up to the while loop.
MazeBegin ==
    /\ last.op = "init"
    /\ \E start_row \in EvenBelow(height), start_col \in EvenBelow(width) :
        /\ grid' = MazeSeeded(grid, start_row, start_col)
        /\ last' = [op |-> "maze_loop", seed |-> <<start_row, start_col>>,
                    walls |-> WallsAround(MazeSeeded(grid, start_row, start_col),
                                          start_row, start_col, FALSE, 1)]
    /\ UNCHANGED <<height, width, geom, cost, graphVars, engineVars, edits>>

\* One turn of the while loop.
MazeTurn ==
    /\ last.op = "maze_loop"
    /\ \E idx \in DOMAIN last.walls :
        /\ grid' = MazeGridAfterWall(grid, last.walls[idx])
        /\ last' = [last EXCEPT !.walls = MazeWallsAfterWall(grid, last.walls, idx)]
    /\ UNCHANGED <<height, width, geom, cost, graphVars, engineVars, edits>>

\* The while loop ends on an empty list and the function returns.
MazeReturn ==
    /\ last.op = "maze_loop"
    /\ last.walls = <<>>
    /\ last' = [op |-> "generate_maze_prim", seed |-> last.seed]
    /\ UNCHANGED <<gridVars, graphVars, engineVars, edits>>

NextMazeLoop == MazeBegin \/ MazeTurn \/ MazeReturn

SpecMazeLoop ==
    InitMazeLoop /\ [][NextMazeLoop]_vars /\ WF_vars(MazeTurn) /\ WF_vars(MazeReturn)

(***************************************************************************)
(* SpecGridScreenPlaced: the grid screen from the moment the user has set  *)
(* a START on the first square and a GOAL on the last of the fresh grid    *)
(* (Set Start, a click, Set Goal, a click, the button released), with      *)
(* MaxEdits more edits to come.                                            *)
(***************************************************************************)
PlacedGrid(size) ==
    [NewGrid(size, size) EXCEPT ![<<0, 0>>] = "START",
                                ![<<size - 1, size - 1>>] = "GOAL"]

InitGridScreenPlaced ==
    /\ \E size \in ScreenSizes :
        /\ height = size
        /\ width = size
        /\ grid = PlacedGrid(size)
        /\ cost = NewCost(size, size)
        /\ geom = ScreenGeom(size)
    /\ NoGraph
    /\ NoEngine
    /\ edits = 0
    /\ last = [op |-> "mouse_up", calls |-> <<>>,
               running_algorithm |-> FALSE,
               runned_algorithm |-> FALSE,
               grid_full_reset |-> TRUE,
               set_start_mode |-> FALSE,
               set_goal_mode |-> FALSE,
               block_action |-> FALSE,
               grid_reset_state |-> <<>>]

SpecGridScreenPlaced == InitGridScreenPlaced /\ [][NextGridScreen]_vars

(***************************************************************************)
(* Claims about Grid.change_state and Grid.get (SpecGrid).                 *)
(***************************************************************************)
CellsWith(g, s) == {cell \in DOMAIN g : g[cell] = s}

\* A step that is a successful Grid.change_state call with tag s.
ChangeStateStep(s) ==
    /\ last'.op = "change_state"
    /\ last'.err = "none"
    /\ last'.new_state = s

\* What a successful change_state(row, col, s), s one of START and GOAL, must do:
\* afterwards the target is the only cell tagged s, and the cell that was tagged s
\* before, if it is another cell, is ACTIVATED.
UniqueAfterSet(s) ==
    ChangeStateStep(s) =>
        LET target == <<last'.row, last'.col>>
            before == CellsWith(grid, s)
        IN /\ Cardinality(before) <= 1
           /\ CellsWith(grid', s) = {target}
           /\ \A cell \in before \ {target} : grid'[cell] = "ACTIVATED"

\* C1: Grid.change_state(row, col, START) on an in-bounds cell leaves exactly one
\* START cell, the target, and a previous START cell elsewhere becomes ACTIVATED;
\* the same for GOAL.
C1_SetStartGoalUnique == [][UniqueAfterSet("START") /\ UniqueAfterSet("GOAL")]_vars

\* C1 witness: START or GOAL was moved from another cell, which is now ACTIVATED.
C1_Witness ==
    /\ last.op = "change_state" /\ last.err = "none"
    /\ last.new_state \in {"START", "GOAL"}
    /\ last.prev # None /\ last.prev # <<last.row, last.col>>
    /\ grid[last.prev] = "ACTIVATED"
    /\ CellsWith(grid, last.new_state) = {<<last.row, last.col>>}

\* C4: change_state(row, col, ACTIVATED) on a START cell leaves the whole grid
\* unchanged; every other successful call whose tag is neither START nor GOAL
\* overwrites the target's tag and changes no other cell.
C4_ActivateOnStartNoOp ==
    [][(last'.op = "change_state" /\ last'.err = "none"
            /\ last'.new_state \notin {"START", "GOAL"}) =>
        LET target == <<last'.row, last'.col>>
        IN IF last'.new_state = "ACTIVATED" /\ grid[target] = "START"
           THEN grid' = grid
           ELSE grid' = [grid EXCEPT ![target] = last'.new_state]]_vars

\* C4 witness: an ACTIVATED request on the START cell, which is still START.
C4_Witness ==
    /\ last.op = "change_state" /\ last.err = "none"
    /\ last.new_state = "ACTIVATED" /\ last.was = "START"
    /\ grid[<<last.row, last.col>>] = "START"

\* C5: Grid.get and Grid.change_state with a row or column outside the grid raise
\* IndexError (change_state: when the tag is a State; its tag check comes first),
\* change_state with a value that is not a State raises ValueError, and a call
\* that raises changes no cell.
C5_FailingCallsChangeNothing ==
    [][(last'.op \in {"get", "change_state"}) =>
        /\ (last'.op = "get" /\ ~InBounds(last'.row, last'.col))
              => last'.err = "IndexError"
        /\ (last'.op = "change_state" /\ last'.new_state \notin State)
              => last'.err = "ValueError"
        /\ (last'.op = "change_state" /\ last'.new_state \in State
                /\ ~InBounds(last'.row, last'.col))
              => last'.err = "IndexError"
        /\ last'.err # "none" => grid' = grid]_vars

\* C5 witness: an out-of-range change_state(.., START) failed on a grid that has a
\* START cell, which is still START.
C5_Witness ==
    /\ last.op = "change_state" /\ last.err = "IndexError"
    /\ last.new_state = "START"
    /\ last.prev # None /\ grid[last.prev] = "START"

(***************************************************************************)
(* Claims about the grid under edits, engines and the maze generator       *)
(* (SpecEngineGrid).                                                       *)
(***************************************************************************)
\* C2: from a fresh grid, after any sequence of Grid.change_state calls, engine
\* constructions, reset(), step() and highlight_path() calls of the five classes
\* and generate_maze_prim calls, at most one cell is START and at most one is GOAL.
C2_AtMostOneStartOneGoal ==
    /\ Cardinality(CellsWith(grid, "START")) <= 1
    /\ Cardinality(CellsWith(grid, "GOAL")) <= 1

\* C2 witness: an engine has found the goal and highlight_path has painted a cell
\* between the one START and the one GOAL.
C2_Witness ==
    /\ last.op = "highlight_path"
    /\ found
    /\ Cardinality(CellsWith(grid, "START")) = 1
    /\ Cardinality(CellsWith(grid, "GOAL")) = 1
    /\ CellsWith(grid, "PATH") # {}
    /\ Len(path) = MaxPath

(***************************************************************************)
(* Claims about Grid.get_neighbors (SpecNeighbors).                        *)
(***************************************************************************)
SeqRange(q) == {q[i] : i \in DOMAIN q}
NoDuplicates(q) == \A i, j \in DOMAIN q : i # j => q[i] # q[j]

\* The distance between two cells by their indices in self.grid.
IndexDistance(a, b) == Abs(a[1] - b[1]) + Abs(a[2] - b[2])

\* C6: on every grid and for every cell, get_neighbors yields between 0 and 4
\* cells, each in the grid and at index distance exactly 1 from the cell, none
\* twice: exactly the in-bounds cells among up, down, left and right, whatever the
\* cells' tags.
C6_NeighborsAdjacentInBounds ==
    last.op = "get_neighbors" =>
        LET r == last.cell[1]
            c == last.cell[2]
        IN /\ Len(last.ret) \in 0 .. 4
           /\ NoDuplicates(last.ret)
           /\ \A n \in SeqRange(last.ret) : n \in Cells /\ IndexDistance(n, last.cell) = 1
           /\ SeqRange(last.ret) =
                {<<r - 1, c>>, <<r + 1, c>>, <<r, c - 1>>, <<r, c + 1>>} \cap Cells

\* C6 witness: a cell with four neighbours, one of them not ACTIVATED.
C6_Witness ==
    /\ last.op = "get_neighbors"
    /\ Len(last.ret) = 4
    /\ \E i \in 1 .. 4 : grid[last.ret[i]] = "DEACTIVATED"

(***************************************************************************)
(* Claims about the Graph (SpecGraphState, SpecGraph).                     *)
(***************************************************************************)
NodesWith(s) == {i \in DOMAIN nodes : nstate[nodes[i]] = s}

\* C3: Graph.change_state enforces START/GOAL uniqueness: after any sequence of
\* Graph.change_state calls at most one node of the graph is START and at most one
\* is GOAL.
C3_GraphStartGoalUnique ==
    /\ Cardinality(NodesWith("START")) <= 1
    /\ Cardinality(NodesWith("GOAL")) <= 1

\* An edge of the list joins the unordered pair {a, b}.
EdgeBetween(es, a, b) == \E i \in DOMAIN es : {es[i].node1, es[i].node2} = {a, b}

\* C7: add_edge(a, b) leaves the edge list unchanged if an edge joins a and b
\* (added either way round), if a = b, or if a or b is not in the graph; otherwise
\* it appends exactly one edge, with cost 1 and state ACTIVATED.
C7_AddEdgeIdempotent ==
    [][last'.op = "add_edge" =>
        LET a == last'.node1
            b == last'.node2
        IN /\ nodes' = nodes
           /\ IF \/ EdgeBetween(edges, a, b)
                 \/ a = b
                 \/ a \notin SeqRange(nodes)
                 \/ b \notin SeqRange(nodes)
              THEN edges' = edges
              ELSE edges' = edges \o
                     <<[node1 |-> a, node2 |-> b, cost |-> 1, state |-> "ACTIVATED"]>>]_vars

\* C7 witness: add_edge(a, b) was called when the edge had been added as (b, a),
\* and the graph still holds that one edge between them.
C7_Witness ==
    /\ last.op = "add_edge"
    /\ last.node1 # last.node2
    /\ {i \in DOMAIN edges : {edges[i].node1, edges[i].node2} = {last.node1, last.node2}}
          = {i \in DOMAIN edges :
                edges[i].node1 = last.node2 /\ edges[i].node2 = last.node1}
    /\ EdgeBetween(edges, last.node1, last.node2)

\* C8: every edge joins two distinct nodes that are both in the node list, and no
\* unordered pair of nodes is joined by more than one edge.
C8_EdgesWellFormed ==
    /\ \A i \in DOMAIN edges :
          /\ edges[i].node1 # edges[i].node2
          /\ edges[i].node1 \in SeqRange(nodes)
          /\ edges[i].node2 \in SeqRange(nodes)
    /\ \A i, j \in DOMAIN edges :
          i # j => {edges[i].node1, edges[i].node2} # {edges[j].node1, edges[j].node2}

\* C8 witness: remove_node removed a node together with an edge touching it, and
\* another edge is left.
C8_Witness ==
    /\ last.op = "remove_node"
    /\ last.present
    /\ last.touching >= 1
    /\ Len(edges) >= 1

\* C9: remove_node(n) for a node in the graph removes exactly n and exactly the
\* edges with n as an endpoint, the rest staying in order and unchanged; for a node
\* not in the graph it changes nothing and raises nothing.
C9_RemoveNodeFrame ==
    [][last'.op = "remove_node" =>
        LET n == last'.node
        IN /\ last'.err = "none"
           /\ nstate' = nstate
           /\ npos' = npos
           /\ IF n \in SeqRange(nodes)
              THEN /\ nodes' = SelectSeq(nodes, LAMBDA m : m # n)
                   /\ edges' = SelectSeq(edges, LAMBDA e : n \notin {e.node1, e.node2})
              ELSE /\ nodes' = nodes
                   /\ edges' = edges]_vars

\* C9 witness: a node that was not the last of the list was removed with an edge
\* touching it, and an edge and later nodes are left.
C9_Witness ==
    /\ last.op = "remove_node"
    /\ last.present
    /\ last.touching >= 1
    /\ \E i \in DOMAIN nodes : nodes[i] > last.node
    /\ Len(edges) >= 1

CurrentStart == StructGetStart(structure, nodes, StatesOf(structure))
CurrentGoal == StructGetGoal(structure, nodes, StatesOf(structure))
StartOrGoalMissing ==
    CurrentStart = NoNode(structure) \/ CurrentGoal = NoNode(structure)

\* C11: when the structure has no START node or no GOAL node, the frontier is
\* empty after the constructor's or a later reset(), and every step() returns
\* false and changes no node state and no edge state.
C11_IdleWithoutStartOrGoal ==
    [][(alg' # "none" /\ StartOrGoalMissing') =>
        /\ last'.op \in {"new", "reset"} => frontier' = <<>>
        /\ last'.op = "step" =>
              /\ last'.ret = FALSE
              /\ grid' = grid /\ nstate' = nstate /\ edges' = edges]_vars

\* C12: after a step() call that returned true the frontier is not empty and found
\* is false; a step() call made when the frontier is empty or found is true
\* returns false.
C12_TrueMeansMoreWork ==
    [][last'.op = "step" =>
        /\ last'.ret = TRUE => (frontier' # <<>> /\ ~found')
        /\ (frontier = <<>> \/ found) => last'.ret = FALSE]_vars

\* What one highlight_path() call must have done when it was made with found true
\* and an empty path list: p, the path list afterwards, is the chain of parents
\* from the goal to the start, and only its inner nodes and its edges were
\* repainted.
IsParentChain(p) ==
    /\ p # <<>>
    /\ p[1] = CurrentGoal
    /\ StatesOf(structure)[p[Len(p)]] = "START"
    /\ DictGet(parents, p[Len(p)], NoNode(structure)) = NoNode(structure)
    /\ \A i \in 1 .. Len(p) - 1 :
          /\ DictGet(parents, p[i], NoNode(structure)) = p[i + 1]
          /\ \E j \in DOMAIN StructGetNeighbors(structure, edges, p[i]) :
                StructGetNeighbors(structure, edges, p[i])[j] = p[i + 1]

OnlyChainPainted(p, before, after) ==
    /\ DOMAIN after = DOMAIN before
    /\ \A n \in DOMAIN before :
          IF before[n] \notin {"START", "GOAL"} /\ \E i \in DOMAIN p : p[i] = n
          THEN after[n] = "PATH"
          ELSE after[n] = before[n]

ChainEdgesPainted(p, es) ==
    \A i \in 1 .. Len(p) - 1 :
        \A j \in DOMAIN es : Joins(es[j], p[i], p[i + 1]) => es[j].state = "PATH"

\* C16: a highlight_path() call made once found is true, the path list still
\* empty, leaves in the path list the chain of parents from GOAL to START, each
\* node a neighbor of the next and START last with parent None; the chain's nodes
\* other than START and GOAL are PATH, no other node state has changed, and on a
\* graph the edges between consecutive nodes of the chain are PATH.
C16_HighlightPathChain ==
    [][(last'.op = "highlight_path" /\ found /\ path = <<>>) =>
        /\ IsParentChain(path')
        /\ OnlyChainPainted(path', StatesOf(structure), StatesOf(structure)')
        /\ structure = "graph" => ChainEdgesPainted(path', edges')]_vars

C13_BfsOpenGrid ==
    alg = "BFS" =>
        /\ found => StepCalls <= 25
        /\ (last.op = "update_algorithm" /\ ~last.ret) =>
              /\ found
              /\ Len(path) = ManhattanHeuristic(CurrentStart, CurrentGoal) + 1
              /\ path[1] = CurrentGoal
              /\ path[Len(path)] = CurrentStart

\* C13 witness: the BFS run from (0, 0) to (4, 4) has ended with a path of 9 cells.
C13_Witness ==
    /\ alg = "BFS"
    /\ last.op = "update_algorithm" /\ ~last.ret
    /\ found
    /\ grid[<<0, 0>>] = "START" /\ grid[<<4, 4>>] = "GOAL"
    /\ Len(path) = 9
    /\ StepCalls <= 26

(***************************************************************************)
(* Claims about Dijkstra and A* on weighted structures                     *)
(* (SpecSearchWeighted).                                                   *)
(***************************************************************************)
\* The engine's run has ended: update_algorithm got false from step() and called
\* highlight_path().
RunEnded == last.op = "update_algorithm" /\ ~last.ret

\* The other cost-aware class.
OtherCostAlg == IF alg = "Dijkstra" THEN "AStar" ELSE "Dijkstra"

\* C14: when the run of Dijkstra or of A* has ended with the goal found, the path
\* it left has the same total movement cost as the path the other of the two
\* leaves on the same structure.
C14_DijkstraAStarSameCost ==
    (alg \in CostAlgs /\ RunEnded /\ found) =>
        PathCost(structure, edges, path)
            = PathCost(structure, edges,
                       SearchEnded(structure, OtherCostAlg, nodes,
                                   StatesBeforeSearch(StatesOf(structure)), edges).path)

\* The engine will return false at its next step(): the frontier is exhausted or
\* the goal has been found.
RunStopped == alg # "none" /\ RunningAlgorithm /\ ~StepReturn(Engine)

\* C15: on a grid, whose costs of at least 1 make the Manhattan heuristic
\* admissible, the cells A* has marked VISITED when its step() first returns false
\* are no more than those Dijkstra has marked on the same grid when its step()
\* first returns false.
C15_AStarVisitsNoMore ==
    (alg = "AStar" /\ structure = "grid" /\ RunStopped) =>
        VisitedCount(grid)
            <= VisitedCount(SearchStopped("grid", "Dijkstra", nodes,
                                          StatesBeforeSearch(grid), edges).st)

(***************************************************************************)
(* Claims about the maze generator (SpecMaze).                             *)
(***************************************************************************)
\* Two cells next to each other in a row or in a column.
Adjacent4(a, b) == Abs(a[1] - b[1]) + Abs(a[2] - b[2]) = 1

\* The ACTIVATED cells reached from the cells of seen through ACTIVATED cells.
RECURSIVE ActivatedReach(_, _)
ActivatedReach(g, seen) ==
    LET more == {cell \in DOMAIN g :
                    /\ g[cell] = "ACTIVATED"
                    /\ cell \notin seen
                    /\ \E s \in seen : Adjacent4(cell, s)}
    IN IF more = {} THEN seen ELSE ActivatedReach(g, seen \cup more)

\* The pairs of adjacent ACTIVATED cells, each pair once.
ActivatedPairs(g) ==
    {pr \in CellsWith(g, "ACTIVATED") \X CellsWith(g, "ACTIVATED") :
        /\ Adjacent4(pr[1], pr[2])
        /\ ScanIndex(pr[1]) < ScanIndex(pr[2])}

\* C18: after generate_maze_prim the seed cell is ACTIVATED and every ACTIVATED
\* cell is reached from it through ACTIVATED cells, moving between cells
\* adjacent in a row or a column.
C18_MazeConnected ==
    last.op = "generate_maze_prim" =>
        /\ grid[last.seed] = "ACTIVATED"
        /\ CellsWith(grid, "ACTIVATED") = ActivatedReach(grid, {last.seed})

\* C18 witness: a maze on a grid with an even number of rows and of columns, four
\* cells joined by three passages.
C18_Witness ==
    /\ last.op = "generate_maze_prim"
    /\ height = 4 /\ width = 4
    /\ Cardinality(CellsWith(grid, "ACTIVATED")) = 7
    /\ Cardinality(ActivatedReach(grid, {last.seed})) = 7

\* C19: after generate_maze_prim the ACTIVATED cells and their adjacencies form
\* no cycle: the pairs of adjacent ACTIVATED cells are one fewer than the
\* ACTIVATED cells.
C19_MazeAcyclic ==
    last.op = "generate_maze_prim" =>
        Cardinality(ActivatedPairs(grid)) = Cardinality(CellsWith(grid, "ACTIVATED")) - 1

\* C19 witness: a maze on the 3 x 5 grid, where six cells could close a cycle:
\* eleven ACTIVATED cells, ten adjacent pairs.
C19_Witness ==
    /\ last.op = "generate_maze_prim"
    /\ height = 3 /\ width = 5
    /\ Cardinality(CellsWith(grid, "ACTIVATED")) = 11
    /\ Cardinality(ActivatedPairs(grid)) = 10

MapFits(map, h, w) ==
    Len(map) = h /\ \A i \in DOMAIN map : Len(map[i]) = w

\* C21: Grid(width, height, customizable_cost=True) raises ValueError and leaves
\* no grid whenever the loaded cost map has not exactly height rows of exactly
\* width integers; when it has, the square at (row, col) gets the cost
\* map[row][col]; with customizable_cost false every square has cost 1.
C21_GridInitCosts ==
    [][last'.op = "Grid" =>
        LET h == last'.height
            w == last'.width
            loads == LoadGridCostsError(last.text) = "none"
            map == LoadGridCostsResult(last.text)
        IN /\ (last'.customizable_cost /\ loads /\ ~MapFits(map, h, w)) =>
                /\ last'.err = "ValueError"
                /\ UNCHANGED gridVars
           /\ (last'.customizable_cost /\ loads /\ MapFits(map, h, w)) =>
                /\ last'.err = "none"
                /\ height' = h /\ width' = w
                /\ DOMAIN cost' = CellsOf(h, w)
                /\ \A r \in 0 .. h - 1 : \A c \in 0 .. w - 1 :
                       cost'[<<r, c>>] = map[r + 1][c + 1]
           /\ ~last'.customizable_cost =>
                /\ last'.err = "none"
                /\ height' = h /\ width' = w
                /\ DOMAIN cost' = CellsOf(h, w)
                /\ \A cell \in CellsOf(h, w) : cost'[cell] = 1]_vars

\* C21 witness: a 2 x 2 grid refused because the second row of the map holds one
\* cost only; no grid exists afterwards.
C21_Witness ==
    /\ last.op = "Grid"
    /\ last.customizable_cost
    /\ last.height = 2 /\ last.width = 2
    /\ LoadGridCostsResult(last.text) = << <<1, 12>>, <<12>> >>
    /\ last.err = "ValueError"
    /\ grid = <<>> /\ cost = <<>>

(***************************************************************************)
(* Claims about node placement (SpecGraphPlace).                           *)
(***************************************************************************)
\* The nodes of the graph closer than 2 * NODE_RADIUS to the point (x, y).
NodesWithin(ns, pos, x, y) ==
    {n \in SeqRange(ns) :
        SquaredDistance(pos, n, x, y) < (2 * NODE_RADIUS) * (2 * NODE_RADIUS)}

\* Every two distinct nodes of the graph are at least 2 * NODE_RADIUS apart.
NodesApart ==
    \A a \in SeqRange(nodes), b \in SeqRange(nodes) :
        a # b => SquaredDistance(npos, a, npos[b][1], npos[b][2])
                     >= (2 * NODE_RADIUS) * (2 * NODE_RADIUS)

\* C22: a left-button release with no drag under way at a point closer than
\* 2 * NODE_RADIUS to a node of the graph finds can_place_node false and changes
\* nothing in the graph; and in every state every two distinct nodes of the
\* graph are at least 2 * NODE_RADIUS apart.
C22_PlacementKeepsNodesApart ==
    /\ []NodesApart
    /\ [][(/\ last'.op = "mouse_up"
           /\ last'.drag = 0
           /\ last'.button = 1
           /\ NodesWithin(nodes, npos, last'.x, last'.y) # {})
          => (/\ ~last'.can_place
              /\ ~last'.placed
              /\ UNCHANGED graphVars)]_vars

\* C22 witness: a node was placed 30 pixels to the right of node1, and a release
\* at (167, 224), inside no node's circle and less than 30 pixels from node1 and
\* from the new node, was then refused.
C22_Witness ==
    /\ last.op = "mouse_up"
    /\ last.drag = 0 /\ last.button = 1
    /\ last.x = 167 /\ last.y = 224
    /\ GraphGetNode(nodes, npos, 167, 224) = 0
    /\ ~last.can_place
    /\ Cardinality(NodesWithin(nodes, npos, 167, 224)) = 2
    /\ \E n \in SeqRange(nodes) : npos[n] = <<180, 200>>

(***************************************************************************)
(* Claims about one step() of an engine (SpecEngineRun).                   *)
(***************************************************************************)
\* The node of a frontier entry: the entry itself in a queue or a stack, the third
\* field of a heap entry.
EntryNode(a, entry) == IF a \in HeapAlgs THEN entry[3] ELSE entry

\* The nodes of the entries the step has added to the frontier.
EnqueuedNodes ==
    {EntryNode(alg, frontier'[i]) : i \in Len(frontier) .. Len(frontier')}

\* A neighbor no engine has met: still ACTIVATED, not in visited, without a cost.
NeverSeen(node) ==
    /\ StatesOf(structure)[node] = "ACTIVATED"
    /\ node \notin visited
    /\ node \notin DOMAIN costs

\* C23: in a step() that returns true the dequeued node becomes VISITED unless it
\* is tagged START or GOAL; every neighbor the step enqueues becomes FRONTIER
\* unless it is the GOAL, which keeps its tag; and when a GOAL is among the
\* neighbors, found becomes true and every neighbor enumerated after it that no
\* engine has met is still enqueued and marked FRONTIER.
C23_StepMarksNodes ==
    [][(last'.op = "step" /\ last'.ret) =>
        LET before == StatesOf(structure)
            after == StatesOf(structure)'
            node == StepPop(alg, frontier).node
            neighbors == StructGetNeighbors(structure, edges, node)
        IN /\ after[node] = IF before[node] \in {"START", "GOAL"}
                            THEN before[node] ELSE "VISITED"
           /\ \A n \in EnqueuedNodes :
                /\ n \in SeqRange(neighbors)
                /\ after[n] = IF before[n] = "GOAL" THEN "GOAL" ELSE "FRONTIER"
           /\ \A i \in DOMAIN neighbors :
                before[neighbors[i]] = "GOAL" =>
                    /\ found'
                    /\ \A j \in DOMAIN neighbors :
                        (j > i /\ NeverSeen(neighbors[j])) =>
                            /\ neighbors[j] \in EnqueuedNodes
                            /\ after[neighbors[j]] = "FRONTIER"]_vars

\* C23 witness: a BFS step on a grid that met the GOAL and then enqueued one more
\* neighbor of the same square, now FRONTIER.
C23_Witness ==
    /\ last.op = "step" /\ last.ret
    /\ alg = "BFS" /\ structure = "grid"
    /\ found
    /\ Len(frontier) >= 2
    /\ grid[frontier[Len(frontier) - 1]] = "GOAL"
    /\ grid[frontier[Len(frontier)]] = "FRONTIER"
    /\ parents[frontier[Len(frontier)]] = parents[frontier[Len(frontier) - 1]]


(***************************************************************************)
(* Claims about the relaxation of Dijkstra and A* (SpecSearchWeighted).    *)
(***************************************************************************)
\* C24: in a step of Dijkstra or of A*, every neighbor of the expanded node that
\* already has a recorded cost, enqueued or expanded earlier in the run, and that
\* the expanded node reaches at a strictly lower accumulated cost, is enqueued
\* again with that cost recorded and the expanded node as its parent.
C24_ReRelaxes ==
    [][(alg \in CostAlgs /\ last'.op = "update_algorithm" /\ last'.ret) =>
        LET popped == StepPop(alg, frontier)
            node == popped.node
        IN \A n \in SeqRange(StructGetNeighbors(structure, edges, node)) :
            (/\ n \in DOMAIN costs
             /\ StepNewCost(structure, alg, Engine, node, popped.cost, n) < costs[n])
            => /\ n \in EnqueuedNodes
               /\ costs'[n] = StepNewCost(structure, alg, Engine, node, popped.cost, n)
               /\ parents'[n] = node]_vars


(***************************************************************************)
(* Claims about the heap of Dijkstra, A* and Greedy (SpecHeapRun).         *)
(***************************************************************************)
\* The heap holds its entries in the order they were pushed, each with a count
\* above those pushed before it and below the engine's counter.
CountsIncrease ==
    alg \in HeapAlgs =>
        /\ \A i, j \in DOMAIN frontier : i < j => frontier[i][2] < frontier[j][2]
        /\ \A i \in DOMAIN frontier : frontier[i][2] < counter

\* The step took entry i from the heap: the entries left are the others, in
\* their order, before the entries the step pushed.
Popped(i) ==
    /\ Len(frontier') >= Len(frontier) - 1
    /\ SubSeq(frontier', 1, Len(frontier) - 1) = RemoveAt(frontier, i)

\* C25: the entries of the heap carry strictly increasing insertion counts; a
\* step of Dijkstra, A* or Greedy pops an entry whose priority no other entry is
\* below and which was inserted before every other entry of the same priority;
\* and reset() starts the counts again from 0.
C25_HeapFifoAmongTies ==
    /\ []CountsIncrease
    /\ [][(alg \in HeapAlgs /\ last'.op = "step" /\ last'.ret) =>
            \E i \in DOMAIN frontier :
                /\ Popped(i)
                /\ \A j \in DOMAIN frontier :
                    /\ frontier[i][1] <= frontier[j][1]
                    /\ (frontier[i][1] = frontier[j][1] => i <= j)]_vars
    /\ [][(alg \in HeapAlgs /\ last'.op = "reset") =>
            /\ counter' = Len(frontier')
            /\ \A i \in DOMAIN frontier' : frontier'[i][2] = i - 1]_vars

\* C25 witness: a step of Greedy on a grid popped one of two entries of equal
\* priority: the node it expanded (the parent of the last entry pushed) has the
\* priority of an entry pushed in an earlier step that is still in the heap.
C25_Witness ==
    /\ alg = "Greedy" /\ structure = "grid"
    /\ last.op = "step" /\ last.ret
    /\ Len(frontier) >= 2
    /\ LET node == parents[frontier[Len(frontier)][3]]
       IN \E j \in DOMAIN frontier :
            /\ parents[frontier[j][3]] # node
            /\ frontier[j][1] = Heuristic(structure, node, egoal)


(***************************************************************************)
(* Claims about the order of Grid.get_neighbors and the traces of a run    *)
(* (SpecTrace).                                                            *)
(***************************************************************************)
\* The cells up, down, left and right of a cell, in that order, without those
\* outside the grid.
InGrid(cell) == cell \in Cells
UpDownLeftRight(cell) ==
    SelectSeq(<< <<cell[1] - 1, cell[2]>>, <<cell[1] + 1, cell[2]>>,
                 <<cell[1], cell[2] - 1>>, <<cell[1], cell[2] + 1>> >>, InGrid)

\* The engine of a second run of the same class on an equal grid, after as many
\* step() calls, and after highlight_path() once step() has returned false.
RECURSIVE EngineAfterSteps(_, _, _, _)
EngineAfterSteps(k, a, e, n) ==
    IF n = 0 THEN e ELSE EngineAfterSteps(k, a, EngineAfterStep(k, a, e), n - 1)

SecondRun ==
    LET stepped == EngineAfterSteps("grid", alg,
                        EngineAfterReset("grid", alg, nodes, StatesBeforeSearch(grid), edges),
                        StepCalls)
    IN IF RunEnded THEN EngineAfterHighlightPath("grid", stepped, nodes) ELSE stepped

Linked(m, n) ==
    IF structure = "grid" THEN Adjacent4(m, n)
    ELSE \E i \in DOMAIN edges : Joins(edges[i], m, n)

\* The least number of moves from the nodes reached after d moves to the GOAL,
\* through nodes that are ACTIVATED; -1 when there is no way.
RECURSIVE MovesToGoal(_, _, _, _)
MovesToGoal(st, seen, reached, d) ==
    IF \E n \in reached : st[n] = "GOAL" THEN d
    ELSE LET next == {n \in (DOMAIN st) \ seen :
                        /\ st[n] \in {"ACTIVATED", "GOAL"}
                        /\ \E m \in reached : Linked(m, n)}
         IN IF next = {} THEN -1 ELSE MovesToGoal(st, seen \cup next, next, d + 1)

MinMoves ==
    LET st == StatesBeforeSearch(StatesOf(structure))
        starts == {n \in DOMAIN st : st[n] = "START"}
    IN IF starts = {} THEN -1 ELSE MovesToGoal(st, starts, starts, 0)

\* C27: when step() of BFS first returns false, found is true if the GOAL can be
\* reached from START through ACTIVATED nodes and false if it cannot; and the path
\* highlight_path() then builds leads from START to GOAL by moves of the
\* structure through nodes that were ACTIVATED, in the least possible number of
\* moves.
C27_BfsShortestPath ==
    alg = "BFS" =>
        /\ (RunStopped \/ RunEnded) => (found <=> MinMoves >= 0)
        /\ (RunEnded /\ found) =>
            /\ Len(path) = MinMoves + 1
            /\ StatesOf(structure)[path[1]] = "GOAL"
            /\ StatesOf(structure)[path[Len(path)]] = "START"
            /\ \A i \in 1 .. Len(path) - 1 : Linked(path[i + 1], path[i])
            /\ \A i \in 2 .. Len(path) - 1 : StatesOf(structure)[path[i]] = "PATH"

\* C27 witness: on a 3 x 3 grid whose walls force a way round, BFS has ended with
\* a path of the least number of moves, more than the rows and columns between
\* START and GOAL.
C27_Witness ==
    /\ alg = "BFS" /\ structure = "grid" /\ height = 3
    /\ RunEnded /\ found
    /\ Len(path) = MinMoves + 1
    /\ MinMoves > ManhattanHeuristic(path[Len(path)], path[1])


(***************************************************************************)
(* Claims about the cost of the path Dijkstra finds (SpecDijkstraGrid,     *)
(* SpecDijkstraGraph).                                                     *)
(***************************************************************************)
\* The pairs <<node, cost>> of the nodes reached from START by at most n more
\* moves through nodes that are ACTIVATED, each with the least cost found, a move
\* costing what the structure's cost function returns for it.
RECURSIVE LeastCosts(_, _, _)
LeastCosts(st, known, n) ==
    IF n = 0 THEN known
    ELSE LET moves == {m \in known \X DOMAIN st :
                        /\ st[m[1][1]] \in {"START", "ACTIVATED"}
                        /\ st[m[2]] \in {"ACTIVATED", "GOAL"}
                        /\ Linked(m[1][1], m[2])}
             reached == known \cup
                {<<m[2], m[1][2] + StructGetCost(structure, edges, m[1][1], m[2])>> :
                    m \in moves}
             least == {p \in reached : \A q \in reached : q[1] = p[1] => p[2] <= q[2]}
         IN LeastCosts(st, least, n - 1)

\* The least costs at which a GOAL is reached from START: none when there is no
\* way; and the least total cost of a path from START to GOAL when there is one.
GoalCosts ==
    LET st == StatesBeforeSearch(StatesOf(structure))
        starts == {<<node, 0>> : node \in {x \in DOMAIN st : st[x] = "START"}}
        least == LeastCosts(st, starts, Cardinality(DOMAIN st))
    IN {p[2] : p \in {q \in least : st[q[1]] = "GOAL"}}
GoalInReach == GoalCosts # {}
MinCost == CHOOSE c \in GoalCosts : \A d \in GoalCosts : c <= d

\* The path leads from START to GOAL by moves of the structure.
PathLeadsToGoal ==
    /\ path # <<>>
    /\ StatesOf(structure)[path[1]] = "GOAL"
    /\ StatesOf(structure)[path[Len(path)]] = "START"
    /\ \A i \in 1 .. Len(path) - 1 : Linked(path[i + 1], path[i])

\* C28: on a grid with per-cell costs of 0 or more and any layout of walls, when
\* the GOAL can be reached Dijkstra ends with found true and the path it leaves
\* leads from START to GOAL at the least total cost of the cells entered.
C28_DijkstraGridMinCost ==
    (alg = "Dijkstra" /\ structure = "grid" /\ RunEnded /\ GoalInReach) =>
        /\ found
        /\ PathLeadsToGoal
        /\ PathCost("grid", edges, path) = MinCost

\* C28 witness: Dijkstra has ended on a grid with a path of more moves than the
\* rows and columns between START and GOAL, at the least cost.
C28_Witness ==
    /\ alg = "Dijkstra" /\ structure = "grid"
    /\ RunEnded /\ found
    /\ PathCost("grid", edges, path) = MinCost
    /\ Len(path) - 1 > ManhattanHeuristic(path[Len(path)], path[1])
    /\ \E cell \in Cells : grid[cell] = "DEACTIVATED"
    /\ \E i \in 1 .. Len(path) - 1 : cost[path[i]] = 0


\* C29: on a graph whose edges carry positive integer costs, when the GOAL can be
\* reached Dijkstra ends with found true and the path it leaves leads from START
\* to GOAL at the least total cost of the edges taken.
C29_DijkstraGraphMinCost ==
    (alg = "Dijkstra" /\ structure = "graph" /\ RunEnded /\ GoalInReach) =>
        /\ found
        /\ PathLeadsToGoal
        /\ PathCost("graph", edges, path) = MinCost


(***************************************************************************)
(* Claims about the neighbor function an engine is given (SpecSupplied).   *)
(***************************************************************************)
\* C30: in every step() that returns true, of every class, the nodes added to the
\* frontier are among those the callable given to the constructor returns for the
\* expanded node, and every node it returns that no engine has met is added.
C30_SuppliedNeighborsOnly ==
    [][(last'.op = "step" /\ last'.ret) =>
        LET node == StepPop(alg, frontier).node
            supplied == SeqRange(SuppliedNeighbors(last.get_neighbors, structure, edges, node))
        IN /\ EnqueuedNodes \subseteq supplied
           /\ \A n \in supplied : NeverSeen(n) => n \in EnqueuedNodes]_vars

(***************************************************************************)
(* Claims about the grid screen (SpecGridScreen).                          *)
(***************************************************************************)
\* update_algorithm called highlight_path() in the handler that just ran.
CalledHighlightPath == \E i \in DOMAIN last.calls : last.calls[i] = "highlight_path"

\* C31: whenever update_algorithm calls highlight_path(), the engine's found flag
\* is true.
C31_HighlightOnlyWhenFound == CalledHighlightPath => found

\* C32: while running_algorithm is set, a user event (mouse button down or up,
\* Ctrl+R) leaves every cell state as it was and the search running, and a run()
\* frame after which the search is still running has changed the cell states
\* exactly as the engine's step() does: the drag handler has painted nothing.
C32_NoUserChangeWhileRunning ==
    [][last.running_algorithm =>
         IF last'.op = "run"
         THEN last'.running_algorithm =>
                  grid' = EngineAfterStep("grid", alg, Engine).st
         ELSE grid' = grid /\ last'.running_algorithm]_vars

\* A mouse button went down during a search, with block_action clear, after the
\* engine had painted squares.
C32_Witness ==
    /\ last.op = "mouse_down"
    /\ last.running_algorithm
    /\ ~last.block_action
    /\ \E cell \in Cells : grid[cell] \in {"VISITED", "FRONTIER"}

(***************************************************************************)
(* Claims about the graph screen (SpecGraphScreen).                        *)
(***************************************************************************)
\* C33: while running_algorithm is set, a mouse event leaves the nodes, the edges
\* and their states as they were, and a run() frame after which the search is
\* still running has changed them exactly as the engine's step() does.
C33_GraphUntouchedWhileRunning ==
    [][last.running_algorithm =>
         IF last'.op = "run"
         THEN last'.running_algorithm =>
                  /\ nodes' = nodes
                  /\ nstate' = EngineAfterStep("graph", alg, Engine).st
                  /\ edges' = EngineAfterStep("graph", alg, Engine).es
         ELSE nodes' = nodes /\ nstate' = nstate /\ edges' = edges]_vars

(***************************************************************************)
(* Claims about the paint an engine leaves (SpecPaint).                    *)
(***************************************************************************)
\* The nodes the frontier holds, and the nodes of the engine's structure.
FrontierNodes == {EntryNode(alg, frontier[i]) : i \in DOMAIN frontier}
StructureNodes == DOMAIN StatesOf(structure)
VisitOnceAlgs == {"BFS", "DFS", "Greedy"}

\* The tags agree with visited and frontier when the tags in painted stand for
\* "seen": every node but START and GOAL is in visited exactly when it has one of
\* them, and a node of the frontier is FRONTIER, START or GOAL.
PaintAgrees(painted) ==
    /\ \A n \in StructureNodes :
          StatesOf(structure)[n] \notin {"START", "GOAL"} =>
              (n \in visited <=> StatesOf(structure)[n] \in painted)
    /\ \A n \in FrontierNodes : StatesOf(structure)[n] \in {"FRONTIER", "START", "GOAL"}

\* C34 as stated: for BFS, DFS and Greedy a node other than START and GOAL is in
\* visited if and only if its tag is FRONTIER or VISITED, and a node is in the
\* frontier only if its tag is FRONTIER, START or GOAL, in every reachable state.
C34_PaintMatchesVisited ==
    alg \in VisitOnceAlgs => PaintAgrees({"FRONTIER", "VISITED"})

\* C34 amended: the same with PATH among the tags of a visited node, and PATH
\* found only once highlight_path() has been called; until then the tags of the
\* visited nodes are FRONTIER and VISITED alone.
C34_PaintMatchesVisitedOrPath ==
    alg \in VisitOnceAlgs =>
        /\ PaintAgrees({"FRONTIER", "VISITED", "PATH"})
        /\ path = <<>> => PaintAgrees({"FRONTIER", "VISITED"})

\* A search that popped nodes, kept some in its frontier, found the goal and had
\* its path painted.
C34_Witness ==
    /\ alg \in VisitOnceAlgs
    /\ found
    /\ last.op = "highlight_path"
    /\ \E n \in StructureNodes : n \in visited /\ StatesOf(structure)[n] = "PATH"
    /\ \E n \in StructureNodes : n \in visited /\ StatesOf(structure)[n] = "FRONTIER"

(***************************************************************************)
(* Claims about the engine's calls in any order (SpecEngineRun).           *)
(***************************************************************************)
\* The states in which step() is to return false: an engine with an empty
\* frontier or with found set.
Terminal == alg # "none" /\ (frontier = <<>> \/ found)

\* C35: a step() that returns false leaves the engine terminal; from a terminal
\* state every call but reset() and a construction leaves it terminal, and a
\* step() returns false and changes none of frontier, visited, parents, found,
\* the node states and the edge states; found goes from true to false only by
\* reset() or a construction.
C35_TerminalStable ==
    [][/\ (last'.op = "step" /\ ~last'.ret) => Terminal'
       /\ (Terminal /\ last'.op \notin {"reset", "new"}) =>
              /\ Terminal'
              /\ last'.op = "step" =>
                     /\ ~last'.ret
                     /\ UNCHANGED <<frontier, visited, parents, found,
                                    grid, nstate, edges>>
       /\ (found /\ ~found') => last'.op \in {"reset", "new"}]_vars

\* step() has returned false on a search that found the goal with nodes left in
\* its frontier, after highlight_path() had filled the path.
C35_Witness ==
    /\ last.op = "step" /\ ~last.ret
    /\ found /\ frontier # <<>> /\ path # <<>>

(***************************************************************************)
(* Claims about the end of a run (SpecTermination).                        *)
(***************************************************************************)
\* The step() calls of the run that returned true: all of them, but the last when
\* it returned false.
TrueSteps ==
    IF last.op = "update_algorithm"
    THEN IF last.ret THEN last.calls ELSE last.calls - 1
    ELSE 0

\* C36: the step() calls of a run that returned true are never more than the
\* nodes of the structure, and a run that was started comes to a step() that
\* returns false.
C36_SearchTerminates ==
    /\ [](TrueSteps <= Cardinality(StructureNodes))
    /\ (last.op = "new") ~> (last.op = "update_algorithm" /\ ~last.ret)

\* A run ended after as many true-returning steps as the structure has nodes.
C36_Witness ==
    /\ last.op = "update_algorithm" /\ ~last.ret
    /\ TrueSteps = Cardinality(StructureNodes)
    /\ Cardinality(StructureNodes) >= 3

\* The nodes highlight_path() has put in self.path.
PathNodes == {path[i] : i \in DOMAIN path}
Walls == {n \in StructureNodes : StatesOf(structure)[n] = "DEACTIVATED"}

\* C37: a call of reset(), step() or highlight_path(), or a construction, leaves
\* the tag of every DEACTIVATED, START and GOAL node as it was, and after it no
\* DEACTIVATED node is in the frontier, has a parent entry or is in the path.
C37_WallsAndEndpointsKept ==
    [][/\ \A n \in DOMAIN grid :
              grid[n] \in {"DEACTIVATED", "START", "GOAL"} => grid'[n] = grid[n]
       /\ \A n \in DOMAIN nstate :
              nstate[n] \in {"DEACTIVATED", "START", "GOAL"} => nstate'[n] = nstate[n]
       /\ alg' # "none" =>
              /\ FrontierNodes' \cap Walls' = {}
              /\ DOMAIN parents' \cap Walls' = {}
              /\ PathNodes' \cap Walls' = {}]_vars

\* A search among walls that found the goal, next to a wall, and whose path was
\* highlighted.
C37_Witness ==
    /\ last.op = "highlight_path" /\ found
    /\ Len(path) >= 3
    /\ Walls # {}
    /\ \E n \in StructureNodes : StatesOf(structure)[n] = "PATH"

\* C38: reset() and a construction leave every node state, edge state and cost of
\* the structure as it was; afterwards found is false and the path is empty, and
\* the frontier, visited and parents hold the START node alone, with no parent,
\* when the engine is seeded and nothing otherwise.
C38_ResetFrame ==
    [][last'.op \in {"reset", "new"} =>
          /\ UNCHANGED <<grid, cost, nodes, npos, nstate, edges>>
          /\ ~found' /\ path' = <<>>
          /\ LET start == StructGetStart(structure', nodes', StatesOf(structure)')
                 goal == StructGetGoal(structure', nodes', StatesOf(structure)')
                 seeded == /\ start # NoNode(structure')
                           /\ alg' \in {"AStar", "Greedy"} => goal # NoNode(structure')
             IN IF seeded
                THEN /\ Len(frontier') = 1
                     /\ FrontierNodes' = {start}
                     /\ visited' = {start}
                     /\ DOMAIN parents' = {start}
                     /\ DictGet(parents', start, NoNode(structure')) = NoNode(structure')
                ELSE frontier' = <<>> /\ visited' = {} /\ DOMAIN parents' = {}]_vars

\* reset() called on a search that had stepped, found the goal and painted.
C38_Witness ==
    /\ last.op = "reset"
    /\ frontier # <<>> /\ visited # {}
    /\ \E n \in StructureNodes : StatesOf(structure)[n] = "FRONTIER"
    /\ \E n \in StructureNodes : StatesOf(structure)[n] = "PATH"

(***************************************************************************)
(* Claims about generate_maze_prim's loop (SpecMazeLoop).                  *)
(***************************************************************************)
\* ceil(n / 2).
HalfUp(n) == (n + 1) \div 2

\* What the while loop has left to do: every carving turn removes a wall, appends
\* at most three and takes two cells from the DEACTIVATED ones.
MazeWork ==
    IF last.op = "maze_loop"
    THEN 4 * Cardinality(CellsWith(grid, "DEACTIVATED")) + Len(last.walls)
    ELSE 0

\* The grid generate_maze_prim is to leave.
MazeShaped ==
    /\ \A cell \in Cells : grid[cell] \in {"ACTIVATED", "DEACTIVATED"}
    /\ \A cell \in Cells :
          /\ (cell[1] % 2 = 0 /\ cell[2] % 2 = 0) => grid[cell] = "ACTIVATED"
          /\ (cell[1] % 2 = 1 /\ cell[2] % 2 = 1) => grid[cell] = "DEACTIVATED"
    /\ Cardinality(CellsWith(grid, "ACTIVATED"))
           = 2 * HalfUp(height) * HalfUp(width) - 1

\* C39: generate_maze_prim returns whatever indices are drawn (every turn of its
\* loop lessens the work left, and a call that began returns), and the grid it
\* leaves has only ACTIVATED and DEACTIVATED cells, every cell of even row and
\* even column ACTIVATED, every cell of odd row and odd column DEACTIVATED, and
\* 2 * ceil(height / 2) * ceil(width / 2) - 1 ACTIVATED cells.
C39_MazeTerminatesShaped ==
    /\ [](last.op = "generate_maze_prim" => MazeShaped)
    /\ [][last.op = "maze_loop" /\ last'.op = "maze_loop" => MazeWork' < MazeWork]_vars
    /\ (last.op = "maze_loop") ~> (last.op = "generate_maze_prim")

\* A maze returned on a grid of even height and width.
C39_Witness ==
    /\ last.op = "generate_maze_prim"
    /\ height = 4 /\ width = 4
    /\ Cardinality(CellsWith(grid, "ACTIVATED")) = 7
    /\ grid[<<3, 3>>] = "DEACTIVATED"

(***************************************************************************)
(* Claims about a search and the reset after it (SpecGridScreenPlaced).    *)
(***************************************************************************)
\* A grid that shows the paint of a search.
Painted(g) == \E cell \in DOMAIN g : g[cell] \in {"VISITED", "FRONTIER", "PATH"}

\* An algorithm button has started a search in the step.
SearchStarts == ~last.running_algorithm /\ last'.running_algorithm

\* A search has finished, its path is highlighted, and no reset action has
\* occurred since.
SearchFinished == last.runned_algorithm /\ ~last.running_algorithm

\* C40: a search starts on a grid G with a START and a GOAL and no VISITED,
\* FRONTIER or PATH cell, and G is saved; it stays saved while the search runs and
\* after; and after the search has finished the grid is left alone until the
\* first reset action, which leaves G itself (Reset, Ctrl+R, Set Start, Set Goal,
\* a new algorithm start), G with the dragged square changed, or a maze.
C40_SearchResetRoundTrip ==
    [][/\ SearchStarts =>
              /\ last'.grid_reset_state = grid'
              /\ ~Painted(grid')
              /\ GridGetStart(grid') # None /\ GridGetGoal(grid') # None
       /\ (last.runned_algorithm /\ last'.runned_algorithm) =>
              last'.grid_reset_state = last.grid_reset_state
       /\ SearchFinished =>
              IF last'.runned_algorithm /\ ~last'.running_algorithm
              THEN grid' = grid
              ELSE \/ grid' = last.grid_reset_state
                   \/ /\ last'.op = "run"
                      /\ \E at \in Cells, tag \in {"DEACTIVATED", "ACTIVATED"} :
                            grid' = GridAfterChangeState(last.grid_reset_state,
                                                         at[1], at[2], tag)
                   \/ /\ last'.op = "mouse_down"
                      /\ \E seed \in EvenBelow(height) \X EvenBelow(width) :
                            grid' \in GridsAfterMaze(last.grid_reset_state,
                                                     seed[1], seed[2])]_vars

\* Ctrl+R after a search that found the goal and painted its path: the grid is
\* the saved one again, with walls the user had drawn before the search.
C40_Witness ==
    /\ last.op = "key_reset" /\ ~last.runned_algorithm
    /\ found /\ Len(path) >= 3
    /\ grid = last.grid_reset_state
    /\ \E cell \in Cells : grid[cell] = "DEACTIVATED"

====
